---- MODULE Spec2Model ----
(***************************************************************************)
(* Model of the Gaya Foods reporting scripts:                              *)
(*   src/scripts/send_containers_report.py   (priority_query, main loop)   *)
(*   src/daily_report.py                     (query_priority, main)        *)
(*   src/scripts/daily_deliveries_report.py  (parse, group, format, main)  *)
(*   src/email_digest.py                     (fallback summary, main)      *)
(* Each script is a separate batch job, so each has its own specification  *)
(* over its own group of variables; the other groups stay idle.            *)
(*                                                                         *)
(* Python strings are sequences of Unicode code points (naturals), so that  *)
(* len(), slicing, concatenation and the lexicographic order of sorted()    *)
(* are computed and not assumed.                                            *)
(***************************************************************************)
EXTENDS Integers, Sequences, FiniteSets, Bags, TLC

VARIABLES
    \* ---- send_containers_report.py: one call of priority_query ----
    pq_pc,        \* "idle" | "loop" | "returned"
    pq_retries,   \* the retries argument
    pq_attempt,   \* the loop variable `attempt` (= requests issued so far)
    pq_log,       \* outcome of every request issued, in order
    pq_result,    \* the returned list
    pq_line,      \* source line of the return statement taken (0: none yet)
    \* ---- send_containers_report.py: main ----
    sc_pc,        \* position in main
    sc_containers,\* result of fetch_containers_from_priority
    sc_idx,       \* create_excel_report: containers whose items were fetched
    sc_file_uid,  \* result of upload_file ("" stands for None)
    up_attempt,   \* upload_file: loop variable
    sc_r,         \* main: index of the recipient being served (1-based)
    sw_attempt,   \* send_whatsapp: loop variable for the current recipient
    sc_sendlog,   \* every send request issued: [phone, status]
    sc_outcomes,  \* per recipient, the value send_whatsapp returned
    sc_calls,     \* the calls main and create_excel_report made, in order
    sc_uplog,     \* status of every upload request issued (0: it raised)
    \* ---- daily_report.py: main ----
    dr_pc,        \* position in main
    dr_raw_docs,  \* result of query_priority
    dr_documents, \* result of process_documents
    dr_raised_in, \* function in which an unhandled exception arose ("": none)
    dr_file,      \* TRUE while the temporary .xlsx file exists
    dr_file_uid,  \* result of upload_to_timelineai ("": none yet)
    dr_sent,      \* messages accepted by the relay: [phone, file_uid]
    dr_env,       \* TRUE iff every required environment variable is set
    dr_calls,     \* the calls main made, in order
    \* ---- daily_deliveries_report.py: one call of parse_delivery_item ----
    pd_pc,        \* "idle" | "call" | "returned"
    pd_item,      \* the arguments (item, columns)
    pd_row,       \* the returned dict
    \* ---- daily_deliveries_report.py: main ----
    dd_pc,        \* position in main
    dd_deliveries,\* result of query_monday_deliveries
    dd_grouped,   \* format_whatsapp_message: result of group_by_driver
    dd_message,   \* result of format_whatsapp_message
    dd_grouped2,  \* create_excel_report: result of group_by_driver_and_customer
    dd_summary,   \* summary sheet written by create_excel_report
    dd_raised_in, \* function in which an unhandled exception arose ("": none)
    dd_file_uid,  \* result of upload_to_timelines ("": none or failed)
    dd_sent,      \* requests accepted by the relay: [text, file_uid]
    dd_token,     \* TRUE iff MONDAY_API_TOKEN is set in the environment
    dd_fetch,     \* how query_monday_deliveries ended ("": not yet)
    dd_calls,     \* the calls main made, in order
    dd_requests,  \* the HTTP requests of the fetch: [fn, outcome]
    \* ---- email_digest.py: main ----
    em_pc,        \* position in main
    em_emails,    \* result of fetch_emails
    em_summary,   \* the text handed to send_whatsapp
    em_raised_in, \* function in which an unhandled exception arose ("": none)
    em_sent,      \* texts accepted by the relay
    em_env,       \* TRUE iff every required environment variable is set
    em_ai,        \* results of summarize_with_claude: [ok, text]
    em_calls,     \* the calls main made, in order
    \* ---- daily_deliveries_report.py: parse and group, run twice ----
    tw_pc,        \* "idle" | "first" | "second" | "done"
    tw_input,     \* the raw items handed to the first run
    tw_items,     \* the raw items as they are now
    tw_first,     \* rows and groups of the first run
    tw_second     \* rows and groups of the second run

pqVars == <<pq_pc, pq_retries, pq_attempt, pq_log, pq_result, pq_line>>
scVars == <<sc_pc, sc_containers, sc_idx, sc_file_uid, up_attempt, sc_r,
            sw_attempt, sc_sendlog, sc_outcomes, sc_calls, sc_uplog>>
drVars == <<dr_pc, dr_raw_docs, dr_documents, dr_raised_in, dr_file,
            dr_file_uid, dr_sent, dr_env, dr_calls>>
pdVars == <<pd_pc, pd_item, pd_row>>
ddVars == <<dd_pc, dd_deliveries, dd_grouped, dd_message, dd_grouped2,
            dd_summary, dd_raised_in, dd_file_uid, dd_sent, dd_token,
            dd_fetch, dd_calls, dd_requests>>
emVars == <<em_pc, em_emails, em_summary, em_raised_in, em_sent, em_env,
            em_ai, em_calls>>
twVars == <<tw_pc, tw_input, tw_items, tw_first, tw_second>>
vars == <<pqVars, scVars, drVars, pdVars, ddVars, emVars, twVars>>

\* The variables of the other scripts, which a script's steps leave alone.
scRest == <<drVars, pdVars, ddVars, emVars, twVars>>
drRest == <<pqVars, scVars, pdVars, ddVars, emVars, twVars>>
pdRest == <<pqVars, scVars, drVars, ddVars, emVars, twVars>>
ddRest == <<pqVars, scVars, drVars, pdVars, emVars, twVars>>
emRest == <<pqVars, scVars, drVars, pdVars, ddVars, twVars>>
twRest == <<pqVars, scVars, drVars, pdVars, ddVars, emVars>>

(***************************************************************************)
(* Bounds of the model.                                                    *)
(***************************************************************************)
MaxRetries == 3
MaxOrders == 2
MaxDocs == 2
MaxItems == 3
MaxBulk == 10
MaxEmails == 3
MaxSummaryLen == 501

(***************************************************************************)
(* Generic helpers.                                                        *)
(***************************************************************************)
SeqsUpTo(S, n) == UNION {[1..k -> S] : k \in 0..n}

\* One entry of a run's call log: the function main called and, for a send,
\* the text and the file reference put in the payload.
Call(fn, text, file_uid) == [fn |-> fn, text |-> text, file_uid |-> file_uid]


(***************************************************************************)
(* send_containers_report.py : priority_query                              *)
(***************************************************************************)
\* STATDES values of a purchase order (valid_statuses and one other status).
ON_SHIP == "on_ship"
AT_PORT_NO_BL == "at_port_no_bl"
OTHER_STATUS == "other_status"

RawOrders == [STATDES : {ON_SHIP, AT_PORT_NO_BL, OTHER_STATUS},
              ORDNAME : {"", "PO250271"}]

Payloads == SeqsUpTo(RawOrders, MaxOrders)

\* What one requests.get can produce.  body: "value" (JSON object with a
\* 'value' list), "novalue" (JSON object without the key), "malformed"
\* (response.json() raises).
HttpResponse(status, body, value) ==
    [kind |-> "http", status |-> status, body |-> body, value |-> value]
TimeoutOutcome == [kind |-> "timeout", status |-> 0, body |-> "", value |-> <<>>]
ErrorOutcome == [kind |-> "exception", status |-> 0, body |-> "", value |-> <<>>]

TransientStatuses == {502, 503, 504}
OtherStatuses == {404, 500}

PQOutcomes ==
    {HttpResponse(200, "value", v) : v \in Payloads}
    \cup {HttpResponse(200, "novalue", <<>>), HttpResponse(200, "malformed", <<>>)}
    \cup {HttpResponse(s, "", <<>>) : s \in TransientStatuses \cup OtherStatuses}
    \cup {TimeoutOutcome, ErrorOutcome}

IsTransient(o) ==
    \/ o.kind = "timeout"
    \/ o.kind = "http" /\ o.status \in TransientStatuses

\* A variant of the loop body that retries after every failure.
PQBodyRetryAll(o) ==
    IF o.kind = "http" /\ o.status = 200 /\ o.body = "value"
    THEN [ret |-> TRUE, line |-> 125, value |-> o.value]
    ELSE IF o.kind = "http" /\ o.status = 200 /\ o.body = "novalue"
    THEN [ret |-> TRUE, line |-> 125, value |-> <<>>]
    ELSE IF o.kind = "http"
    THEN [ret |-> FALSE, line |-> 129, value |-> <<>>]
    ELSE [ret |-> FALSE, line |-> 136, value |-> <<>>]

\* A variant of the loop body that gives up on the first transient failure.
PQBodyNoRetry(o) ==
    IF o.kind = "http" /\ o.status = 200 /\ o.body = "value"
    THEN [ret |-> TRUE, line |-> 125, value |-> o.value]
    ELSE IF o.kind = "http" /\ o.status = 200 /\ o.body = "novalue"
    THEN [ret |-> TRUE, line |-> 125, value |-> <<>>]
    ELSE IF o.kind = "http"
    THEN [ret |-> TRUE, line |-> 132, value |-> <<>>]
    ELSE [ret |-> TRUE, line |-> 139, value |-> <<>>]

\* One pass through the body of `for attempt in range(retries)` with the
\* request answered by o: the return statement taken, or "continue".
PQBody(o) ==
    IF o.kind = "http" /\ o.status = 200
    THEN IF o.body = "value" THEN [ret |-> TRUE, line |-> 125, value |-> o.value]
         ELSE IF o.body = "novalue" THEN [ret |-> TRUE, line |-> 125, value |-> <<>>]
         ELSE [ret |-> TRUE, line |-> 139, value |-> <<>>]
    ELSE IF o.kind = "http" /\ o.status \in TransientStatuses
    THEN [ret |-> FALSE, line |-> 129, value |-> <<>>]
    ELSE IF o.kind = "http"
    THEN [ret |-> TRUE, line |-> 132, value |-> <<>>]
    ELSE IF o.kind = "timeout"
    THEN [ret |-> FALSE, line |-> 136, value |-> <<>>]
    ELSE [ret |-> TRUE, line |-> 139, value |-> <<>>]

\* `for attempt in range(retries)` has no iteration left.
PQExhaustedOffByOne(attempt, retries) == attempt > retries

PQExhausted(attempt, retries) == attempt >= retries

\* priority_query is entered with the given retries.
PQCall(retries) ==
    /\ pq_pc' = "loop"
    /\ pq_retries' = retries
    /\ pq_attempt' = 0
    /\ pq_log' = <<>>
    /\ pq_result' = <<>>
    /\ pq_line' = 0

\* One iteration of the retry loop: a request is issued and answered.
PQRequest ==
    /\ pq_pc = "loop"
    /\ ~PQExhausted(pq_attempt, pq_retries)
    /\ \E o \in PQOutcomes :
         LET b == PQBody(o) IN
         /\ pq_log' = Append(pq_log, o)
         /\ pq_attempt' = pq_attempt + 1
         /\ IF b.ret
            THEN /\ pq_pc' = "returned"
                 /\ pq_result' = b.value
                 /\ pq_line' = b.line
            ELSE /\ pq_pc' = "loop"
                 /\ UNCHANGED <<pq_result, pq_line>>
    /\ UNCHANGED pq_retries

\* range(retries) is exhausted: "failed after all retries".
PQGiveUp ==
    /\ pq_pc = "loop"
    /\ PQExhausted(pq_attempt, pq_retries)
    /\ pq_pc' = "returned"
    /\ pq_result' = <<>>
    /\ pq_line' = 142
    /\ UNCHANGED <<pq_retries, pq_attempt, pq_log>>

PQIdle ==
    /\ pq_pc = "idle"
    /\ pq_retries = 0
    /\ pq_attempt = 0
    /\ pq_log = <<>>
    /\ pq_result = <<>>
    /\ pq_line = 0

SCIdle ==
    /\ sc_pc = "idle"
    /\ sc_containers = <<>>
    /\ sc_idx = 0
    /\ sc_file_uid = ""
    /\ up_attempt = 0
    /\ sc_r = 0
    /\ sw_attempt = 0
    /\ sc_sendlog = <<>>
    /\ sc_outcomes = <<>>
    /\ sc_calls = <<>>
    /\ sc_uplog = <<>>

DRIdle ==
    /\ dr_pc = "idle"
    /\ dr_raw_docs = <<>>
    /\ dr_documents = <<>>
    /\ dr_raised_in = ""
    /\ dr_file = FALSE
    /\ dr_file_uid = ""
    /\ dr_sent = <<>>
    /\ dr_env = TRUE
    /\ dr_calls = <<>>

PDIdle ==
    /\ pd_pc = "idle"
    /\ pd_item = <<>>
    /\ pd_row = <<>>

DDIdle ==
    /\ dd_pc = "idle"
    /\ dd_deliveries = <<>>
    /\ dd_grouped = <<>>
    /\ dd_message = <<>>
    /\ dd_grouped2 = <<>>
    /\ dd_summary = <<>>
    /\ dd_raised_in = ""
    /\ dd_file_uid = ""
    /\ dd_sent = <<>>
    /\ dd_token = TRUE
    /\ dd_fetch = ""
    /\ dd_calls = <<>>
    /\ dd_requests = <<>>

EMIdle ==
    /\ em_pc = "idle"
    /\ em_emails = <<>>
    /\ em_summary = <<>>
    /\ em_raised_in = ""
    /\ em_sent = <<>>
    /\ em_env = TRUE
    /\ em_ai = <<>>
    /\ em_calls = <<>>

TWIdle ==
    /\ tw_pc = "idle"
    /\ tw_input = <<>>
    /\ tw_items = <<>>
    /\ tw_first = <<>>
    /\ tw_second = <<>>

OthersIdleSC == DRIdle /\ PDIdle /\ DDIdle /\ EMIdle /\ TWIdle
OthersIdleDR == PQIdle /\ SCIdle /\ PDIdle /\ DDIdle /\ EMIdle /\ TWIdle
OthersIdlePD == PQIdle /\ SCIdle /\ DRIdle /\ DDIdle /\ EMIdle /\ TWIdle
OthersIdleDD == PQIdle /\ SCIdle /\ DRIdle /\ PDIdle /\ EMIdle /\ TWIdle
OthersIdleEM == PQIdle /\ SCIdle /\ DRIdle /\ PDIdle /\ DDIdle /\ TWIdle
OthersIdleTW == PQIdle /\ SCIdle /\ DRIdle /\ PDIdle /\ DDIdle /\ EMIdle

\* A single call priority_query(table, params, retries).
InitPriorityQuery ==
    /\ \E r \in 0..MaxRetries :
         /\ pq_pc = "loop"
         /\ pq_retries = r
    /\ pq_attempt = 0
    /\ pq_log = <<>>
    /\ pq_result = <<>>
    /\ pq_line = 0
    /\ SCIdle
    /\ OthersIdleSC

PQRequestStep == PQRequest /\ UNCHANGED <<scVars, scRest>>
PQGiveUpStep == PQGiveUp /\ UNCHANGED <<scVars, scRest>>

NextPriorityQuery == PQRequestStep \/ PQGiveUpStep

SpecPriorityQuery == InitPriorityQuery /\ [][NextPriorityQuery]_vars

(***************************************************************************)
(* send_containers_report.py : main                                        *)
(***************************************************************************)
DefaultRetries == 3
UploadRetries == 3
SendRetries == 2

\* RECIPIENTS: the phone of each entry, in list order.
RECIPIENTS == <<"972528012869", "972538470070", "972505267110">>

\* fetch_containers_from_priority: the loop over the orders of the payload.
\* A variant of the filter that lets every status through.
AnyStatus == {ON_SHIP, AT_PORT_NO_BL, OTHER_STATUS}

ValidStatuses == {ON_SHIP, AT_PORT_NO_BL}

RECURSIVE fetch_containers(_)
fetch_containers(data) ==
    IF data = <<>> THEN <<>>
    ELSE LET order == Head(data)
             rest == fetch_containers(Tail(data))
         IN IF order.STATDES \notin ValidStatuses THEN rest
            ELSE IF order.ORDNAME = "" THEN rest
            ELSE <<[po |-> order.ORDNAME, status |-> order.STATDES]>> \o rest

\* [c for c in containers if c['status'] == <at port without BL>] and
\* [c for c in containers if c['status'] == <on ship>], as create_summary_sheet
\* (lines 297-298) and main (lines 1034-1035) build them.
at_port(containers) == SelectSeq(containers, LAMBDA c : c.status = AT_PORT_NO_BL)
on_ship(containers) == SelectSeq(containers, LAMBDA c : c.status = ON_SHIP)

\* What the relay can answer to an upload or a send: an HTTP status (with, for
\* an upload, the uid of the body; "" when the body carries none) or an
\* exception raised by requests.
UploadOutcomes ==
    {[kind |-> "http", status |-> 200, uid |-> u] : u \in {"uid1", ""}}
    \cup {[kind |-> "http", status |-> 500, uid |-> ""],
          [kind |-> "exception", status |-> 0, uid |-> ""]}

SendOutcomes ==
    {[kind |-> "http", status |-> s] : s \in {200, 400, 500}}
    \cup {[kind |-> "exception", status |-> 0]}

\* A variant of the test that gives up on a client error instead of
\* retrying it.
IsAcceptedOrClientError(o) == o.kind = "http" /\ o.status \in {200, 400}

\* A variant of the test that takes any answer of the server.
IsAcceptedAnyStatus(o) == o.kind = "http"

\* `if response.status_code == 200` in upload_file and send_whatsapp: any
\* other status, and any exception, leads to the next attempt.
IsAccepted(o) == o.kind = "http" /\ o.status = 200

PQReset ==
    /\ pq_pc' = "idle"
    /\ pq_retries' = 0
    /\ pq_attempt' = 0
    /\ pq_log' = <<>>
    /\ pq_result' = <<>>
    /\ pq_line' = 0

\* fetch_usd_rate: monday_query has no handler, so the request may raise.
SCFetchUsdRate ==
    /\ sc_pc = "fetch_usd_rate"
    /\ \E raised \in BOOLEAN :
         sc_pc' = IF raised THEN "raised" ELSE "fetch_containers"
    /\ UNCHANGED <<sc_containers, sc_idx, sc_file_uid, up_attempt, sc_r,
                   sw_attempt, sc_sendlog, sc_outcomes>>
    /\ sc_calls' = Append(sc_calls, Call("fetch_usd_rate", <<>>, ""))
    /\ UNCHANGED sc_uplog
    /\ UNCHANGED <<pqVars, scRest>>

SCFetchContainersCall ==
    /\ sc_pc = "fetch_containers"
    /\ PQCall(DefaultRetries)
    /\ sc_pc' = "fetch_containers_wait"
    /\ UNCHANGED <<sc_containers, sc_idx, sc_file_uid, up_attempt, sc_r,
                   sw_attempt, sc_sendlog, sc_outcomes>>
    /\ sc_calls' = Append(sc_calls, Call("fetch_containers_from_priority", <<>>, ""))
    /\ UNCHANGED sc_uplog
    /\ UNCHANGED scRest

\* fetch_containers_from_priority returns; `if not containers: return`.
SCFetchContainersReturn ==
    /\ sc_pc = "fetch_containers_wait"
    /\ pq_pc = "returned"
    /\ sc_containers' = fetch_containers(pq_result)
    /\ sc_pc' = IF sc_containers' = <<>> THEN "return_1011"
                ELSE "create_excel_report"
    /\ PQReset
    /\ UNCHANGED <<sc_idx, sc_file_uid, up_attempt, sc_r, sw_attempt,
                   sc_sendlog, sc_outcomes>>
    /\ UNCHANGED sc_calls
    /\ UNCHANGED sc_uplog
    /\ UNCHANGED scRest

\* create_excel_report, lines 934-938: the workbook is created and the
\* summary sheet is written from the containers, before any item is fetched.
SCCreateSummarySheet ==
    /\ sc_pc = "create_excel_report"
    /\ sc_pc' = "create_excel"
    /\ UNCHANGED <<sc_containers, sc_idx, sc_file_uid, up_attempt, sc_r,
                   sw_attempt, sc_sendlog, sc_outcomes>>
    /\ sc_calls' = Append(sc_calls, Call("create_summary_sheet", <<>>, ""))
    /\ UNCHANGED sc_uplog
    /\ UNCHANGED <<pqVars, scRest>>

\* create_excel_report, lines 941-945: fetch_items_from_priority for the next
\* container.
SCFetchItemsCall ==
    /\ sc_pc = "create_excel"
    /\ sc_idx < Len(sc_containers)
    /\ PQCall(DefaultRetries)
    /\ sc_pc' = "fetch_items_wait"
    /\ UNCHANGED <<sc_containers, sc_idx, sc_file_uid, up_attempt, sc_r,
                   sw_attempt, sc_sendlog, sc_outcomes>>
    /\ sc_calls' = Append(sc_calls, Call("fetch_items_from_priority", <<>>, ""))
    /\ UNCHANGED sc_uplog
    /\ UNCHANGED scRest

SCFetchItemsReturn ==
    /\ sc_pc = "fetch_items_wait"
    /\ pq_pc = "returned"
    /\ sc_idx' = sc_idx + 1
    /\ sc_pc' = "create_excel"
    /\ PQReset
    /\ UNCHANGED <<sc_containers, sc_file_uid, up_attempt, sc_r, sw_attempt,
                   sc_sendlog, sc_outcomes>>
    /\ UNCHANGED sc_calls
    /\ UNCHANGED sc_uplog
    /\ UNCHANGED scRest

\* create_excel_report: the sheets are written and the workbook saved.
SCSaveExcel ==
    /\ sc_pc = "create_excel"
    /\ sc_idx = Len(sc_containers)
    /\ sc_pc' = "upload_file"
    /\ up_attempt' = 0
    /\ UNCHANGED <<sc_containers, sc_idx, sc_file_uid, sc_r, sw_attempt,
                   sc_sendlog, sc_outcomes>>
    /\ sc_calls' = Append(sc_calls, Call("wb.save", <<>>, ""))
    /\ UNCHANGED sc_uplog
    /\ UNCHANGED <<pqVars, scRest>>

\* upload_file: one iteration of its loop; `if not file_uid: return` follows
\* a return of None (or of an empty uid).
SCUploadAttempt ==
    /\ sc_pc = "upload_file"
    /\ up_attempt < UploadRetries
    /\ \E o \in UploadOutcomes :
         /\ sc_uplog' = Append(sc_uplog, o.status)
         /\ IF IsAccepted(o)
            THEN /\ sc_file_uid' = o.uid
                 /\ up_attempt' = up_attempt + 1
                 /\ IF o.uid = ""
                    THEN /\ sc_pc' = "return_1030"
                         /\ UNCHANGED sc_r
                    ELSE /\ sc_pc' = "send"
                         /\ sc_r' = 1
            ELSE /\ up_attempt' = up_attempt + 1
                 /\ UNCHANGED <<sc_pc, sc_file_uid, sc_r>>
    /\ UNCHANGED <<sc_containers, sc_idx, sw_attempt, sc_sendlog, sc_outcomes>>
    /\ sc_calls' = IF up_attempt = 0
                   THEN Append(sc_calls, Call("upload_file", <<>>, ""))
                   ELSE sc_calls
    /\ UNCHANGED <<pqVars, scRest>>

SCUploadGiveUp ==
    /\ sc_pc = "upload_file"
    /\ up_attempt >= UploadRetries
    /\ sc_pc' = "return_1030"
    /\ UNCHANGED <<sc_containers, sc_idx, sc_file_uid, up_attempt, sc_r,
                   sw_attempt, sc_sendlog, sc_outcomes>>
    /\ UNCHANGED sc_calls
    /\ UNCHANGED sc_uplog
    /\ UNCHANGED <<pqVars, scRest>>

\* A variant of the recipient loop that serves a recipient again after a
\* successful send.
NextRecipientRepeat(r, ok) == IF ok THEN r ELSE r + 1

\* A variant of the recipient loop that stops at the first failed recipient.
NextRecipientAbortOnFailure(r, ok) == IF ok THEN r + 1 ELSE Len(RECIPIENTS) + 1

\* `for r in RECIPIENTS`: the loop goes on whatever send_whatsapp returned.
NextRecipient(r, ok) == r + 1

\* send_whatsapp: one iteration of its loop for the current recipient.
SCSendAttempt ==
    /\ sc_pc = "send"
    /\ sc_r <= Len(RECIPIENTS)
    /\ sw_attempt < SendRetries
    /\ \E o \in SendOutcomes :
         /\ sc_sendlog' = Append(sc_sendlog,
                                 [phone |-> RECIPIENTS[sc_r], status |-> o.status])
         /\ IF IsAccepted(o)
            THEN /\ sc_outcomes' = Append(sc_outcomes, TRUE)
                 /\ sc_r' = NextRecipient(sc_r, TRUE)
                 /\ sw_attempt' = 0
            ELSE /\ sw_attempt' = sw_attempt + 1
                 /\ UNCHANGED <<sc_outcomes, sc_r>>
    /\ UNCHANGED <<sc_pc, sc_containers, sc_idx, sc_file_uid, up_attempt>>
    /\ sc_calls' = IF sw_attempt = 0
                   THEN Append(sc_calls, Call("send_whatsapp", <<>>, sc_file_uid))
                   ELSE sc_calls
    /\ UNCHANGED sc_uplog
    /\ UNCHANGED <<pqVars, scRest>>

\* send_whatsapp: the loop is exhausted, `return False`.
SCSendGiveUp ==
    /\ sc_pc = "send"
    /\ sc_r <= Len(RECIPIENTS)
    /\ sw_attempt >= SendRetries
    /\ sc_outcomes' = Append(sc_outcomes, FALSE)
    /\ sc_r' = NextRecipient(sc_r, FALSE)
    /\ sw_attempt' = 0
    /\ UNCHANGED <<sc_pc, sc_containers, sc_idx, sc_file_uid, up_attempt,
                   sc_sendlog>>
    /\ UNCHANGED sc_calls
    /\ UNCHANGED sc_uplog
    /\ UNCHANGED <<pqVars, scRest>>

\* The recipient loop is over: main prints "Done!" and returns.
SCFinish ==
    /\ sc_pc = "send"
    /\ sc_r > Len(RECIPIENTS)
    /\ sc_pc' = "end"
    /\ UNCHANGED <<sc_containers, sc_idx, sc_file_uid, up_attempt, sc_r,
                   sw_attempt, sc_sendlog, sc_outcomes>>
    /\ UNCHANGED sc_calls
    /\ UNCHANGED sc_uplog
    /\ UNCHANGED <<pqVars, scRest>>

InitContainers ==
    /\ PQIdle
    /\ sc_pc = "fetch_usd_rate"
    /\ sc_containers = <<>>
    /\ sc_idx = 0
    /\ sc_file_uid = ""
    /\ up_attempt = 0
    /\ sc_r = 0
    /\ sw_attempt = 0
    /\ sc_sendlog = <<>>
    /\ sc_outcomes = <<>>
    /\ sc_calls = <<>>
    /\ sc_uplog = <<>>
    /\ OthersIdleSC

NextContainers ==
    \/ SCFetchUsdRate
    \/ SCFetchContainersCall
    \/ PQRequestStep
    \/ PQGiveUpStep
    \/ SCFetchContainersReturn
    \/ SCCreateSummarySheet
    \/ SCFetchItemsCall
    \/ SCFetchItemsReturn
    \/ SCSaveExcel
    \/ SCUploadAttempt
    \/ SCUploadGiveUp
    \/ SCSendAttempt
    \/ SCSendGiveUp
    \/ SCFinish

SpecContainers == InitContainers /\ [][NextContainers]_vars

(***************************************************************************)
(* daily_report.py                                                         *)
(***************************************************************************)
\* A JSON value as Python sees it: a key that is absent, null (None), a
\* number or a string.
Absent == [t |-> "absent", v |-> 0]
None == [t |-> "none", v |-> 0]
Num(n) == [t |-> "num", v |-> n]
Str(n) == [t |-> "str", v |-> n]

\* dict.get(key, default) for a value that may be absent.
Get(x, default) == IF x.t = "absent" THEN default ELSE x

\* TRANSORDER_D_SUBFORM of a document: absent, null, or a list of sub-lines,
\* each given by its TQUANT.
SubformAbsent == [t |-> "absent", lines |-> <<>>]
SubformNone == [t |-> "none", lines |-> <<>>]
SubformList(l) == [t |-> "list", lines |-> l]

Subforms == {SubformAbsent, SubformNone,
             SubformList(<<Num(5), Num(7)>>),
             SubformList(<<Num(5), Absent>>),
             SubformList(<<None>>),
             SubformList(<<Str(1)>>)}

RawDocs == [TRANSORDER_D_SUBFORM : Subforms,
            QPRICE : {Absent, None, Num(100), Str(1)},
            CURDATE : {Str(1), None}]

DocLists == SeqsUpTo(RawDocs, MaxDocs)

\* sum(line.get("TQUANT", 0) for line in lines): the sum, or a TypeError as
\* soon as a term is not a number.
RECURSIVE SumTquant(_)
SumTquant(lines) ==
    IF lines = <<>> THEN [raised |-> FALSE, v |-> 0]
    ELSE LET q == Get(Head(lines), Num(0))
             rest == SumTquant(Tail(lines))
         IN IF q.t # "num" \/ rest.raised
            THEN [raised |-> TRUE, v |-> 0]
            ELSE [raised |-> FALSE, v |-> q.v + rest.v]

\* The body of the loop of process_documents for one document.
ProcessDocument(doc) ==
    LET sub == doc.TRANSORDER_D_SUBFORM
        lines == IF sub.t = "absent" THEN SubformList(<<>>) ELSE sub
        total_qty == SumTquant(lines.lines)
        curdate == Get(doc.CURDATE, Str(0))
    IN IF lines.t = "none" THEN [raised |-> TRUE, row |-> <<>>]          \* len(None)
       ELSE IF total_qty.raised THEN [raised |-> TRUE, row |-> <<>>]      \* sum(...)
       ELSE IF curdate.t # "str" THEN [raised |-> TRUE, row |-> <<>>]     \* None[:10]
       ELSE [raised |-> FALSE,
             row |-> [CURDATE |-> curdate,
                      QPRICE |-> Get(doc.QPRICE, Num(0)),
                      QTY |-> total_qty.v,
                      PALLETS |-> Len(lines.lines)]]

RECURSIVE process_documents(_)
process_documents(raw_docs) ==
    IF raw_docs = <<>> THEN [raised |-> FALSE, documents |-> <<>>]
    ELSE LET first == ProcessDocument(Head(raw_docs))
             rest == process_documents(Tail(raw_docs))
         IN IF first.raised \/ rest.raised
            THEN [raised |-> TRUE, documents |-> <<>>]
            ELSE [raised |-> FALSE, documents |-> <<first.row>> \o rest.documents]

\* sum(d["QPRICE"] for d in documents) is defined iff every term is a number.
SumDefined(documents) == \A i \in 1..Len(documents) : documents[i].QPRICE.t = "num"

WHATSAPP_PHONE == "972528012869"

\* Module configuration, lines 16-19: PRIORITY_API_USER, PRIORITY_API_PASS
\* and TIMELINEAI_TOKEN are read with os.environ[...], so an absent variable
\* raises KeyError while the module is imported, before main is called.
DRStartup ==
    /\ dr_pc = "startup"
    /\ IF dr_env
       THEN dr_pc' = "query_priority" /\ UNCHANGED dr_raised_in
       ELSE dr_pc' = "raised" /\ dr_raised_in' = "module configuration"
    /\ UNCHANGED <<dr_raw_docs, dr_documents, dr_file, dr_file_uid, dr_sent,
                   dr_env, dr_calls>>
    /\ UNCHANGED drRest

\* A variant of main without the early return.
AfterQueryNoReturn(raw_docs) == "process_documents"

\* main lines 259-261: `if not raw_docs:` prints "No documents found" and
\* returns.
AfterQuery(raw_docs) ==
    IF raw_docs = <<>> THEN "return_261" ELSE "process_documents"

\* query_priority: requests.get, raise_for_status and response.json() are
\* not guarded, so a failed request raises out of query_priority and main.
DRQueryPriority ==
    /\ dr_pc = "query_priority"
    /\ \/ \E docs \in DocLists :
            /\ dr_raw_docs' = docs
            /\ dr_pc' = AfterQuery(docs)
            /\ UNCHANGED dr_raised_in
       \/ /\ dr_pc' = "raised"
          /\ dr_raised_in' = "query_priority"
          /\ UNCHANGED dr_raw_docs
    /\ dr_calls' = Append(dr_calls, Call("query_priority", <<>>, ""))
    /\ UNCHANGED <<dr_documents, dr_file, dr_file_uid, dr_sent,
                   dr_env>>
    /\ UNCHANGED drRest

\* main, lines 264-268: process_documents and the two totals.
DRProcessDocuments ==
    /\ dr_pc = "process_documents"
    /\ LET r == process_documents(dr_raw_docs) IN
         IF r.raised
         THEN /\ dr_pc' = "raised"
              /\ dr_raised_in' = "process_documents"
              /\ UNCHANGED dr_documents
         ELSE /\ dr_documents' = r.documents
              /\ IF SumDefined(r.documents)
                 THEN /\ dr_pc' = "create_excel"
                      /\ UNCHANGED dr_raised_in
                 ELSE /\ dr_pc' = "raised"
                      /\ dr_raised_in' = "main"
    /\ dr_calls' = Append(dr_calls, Call("process_documents", <<>>, ""))
    /\ UNCHANGED <<dr_raw_docs, dr_file, dr_file_uid, dr_sent,
                   dr_env>>
    /\ UNCHANGED drRest

\* create_excel: the workbook is written to the temporary directory.
DRCreateExcel ==
    /\ dr_pc = "create_excel"
    /\ dr_file' = TRUE
    /\ dr_pc' = "upload_to_timelineai"
    /\ dr_calls' = Append(dr_calls, Call("create_excel", <<>>, ""))
    /\ UNCHANGED <<dr_raw_docs, dr_documents, dr_raised_in, dr_file_uid, dr_sent,
                   dr_env>>
    /\ UNCHANGED drRest

\* upload_to_timelineai: returns the uid or raises (raise_for_status, or a
\* body without data.uid).
DRUpload ==
    /\ dr_pc = "upload_to_timelineai"
    /\ \/ /\ dr_file_uid' = "uid1"
          /\ dr_pc' = "send_whatsapp"
          /\ UNCHANGED dr_raised_in
       \/ /\ dr_pc' = "raised"
          /\ dr_raised_in' = "upload_to_timelineai"
          /\ UNCHANGED dr_file_uid
    /\ dr_calls' = Append(dr_calls, Call("upload_to_timelineai", <<>>, ""))
    /\ UNCHANGED <<dr_raw_docs, dr_documents, dr_file, dr_sent,
                   dr_env>>
    /\ UNCHANGED drRest

\* send_whatsapp: returns the relay's answer or raises.
DRSendWhatsapp ==
    /\ dr_pc = "send_whatsapp"
    /\ \/ /\ dr_sent' = Append(dr_sent, [phone |-> WHATSAPP_PHONE,
                                         file_uid |-> dr_file_uid])
          /\ dr_pc' = "cleanup"
          /\ UNCHANGED dr_raised_in
       \/ /\ dr_pc' = "raised"
          /\ dr_raised_in' = "send_whatsapp"
          /\ UNCHANGED dr_sent
    /\ dr_calls' = Append(dr_calls, Call("send_whatsapp", <<>>, dr_file_uid))
    /\ UNCHANGED <<dr_raw_docs, dr_documents, dr_file, dr_file_uid,
                   dr_env>>
    /\ UNCHANGED drRest

\* os.remove(filepath), then main ends.
DRCleanup ==
    /\ dr_pc = "cleanup"
    /\ dr_file' = FALSE
    /\ dr_pc' = "end"
    /\ dr_calls' = Append(dr_calls, Call("os.remove", <<>>, ""))
    /\ UNCHANGED <<dr_raw_docs, dr_documents, dr_raised_in, dr_file_uid, dr_sent,
                   dr_env>>
    /\ UNCHANGED drRest

InitDailyReport ==
    /\ dr_pc = "startup"
    /\ dr_env \in BOOLEAN
    /\ dr_calls = <<>>
    /\ dr_raw_docs = <<>>
    /\ dr_documents = <<>>
    /\ dr_raised_in = ""
    /\ dr_file = FALSE
    /\ dr_file_uid = ""
    /\ dr_sent = <<>>
    /\ OthersIdleDR

NextDailyReport ==
    \/ DRStartup
    \/ DRQueryPriority
    \/ DRProcessDocuments
    \/ DRCreateExcel
    \/ DRUpload
    \/ DRSendWhatsapp
    \/ DRCleanup

SpecDailyReport == InitDailyReport /\ [][NextDailyReport]_vars

(***************************************************************************)
(* Python strings and floats.                                              *)
(***************************************************************************)
\* str(n) for an integer n.
RECURSIVE NatStr(_)
NatStr(n) == IF n < 10 THEN <<48 + n>> ELSE NatStr(n \div 10) \o <<48 + (n % 10)>>
IntStr(n) == IF n < 0 THEN <<45>> \o NatStr(-n) ELSE NatStr(n)

\* a < b for two str values: lexicographic order on code points.
RECURSIVE StrLess(_, _)
StrLess(a, b) ==
    IF b = <<>> THEN FALSE
    ELSE IF a = <<>> THEN TRUE
    ELSE IF Head(a) # Head(b) THEN Head(a) < Head(b)
    ELSE StrLess(Tail(a), Tail(b))

\* s[:n]
Prefix(s, n) == SubSeq(s, 1, IF Len(s) < n THEN Len(s) ELSE n)

\* "\n".join(lines)
RECURSIVE JoinLines(_)
JoinLines(lines) ==
    IF lines = <<>> THEN <<>>
    ELSE IF Len(lines) = 1 THEN lines[1]
    ELSE lines[1] \o <<10>> \o JoinLines(Tail(lines))

\* A value that is a str, None, or a missing key.
StrVal(chars) == [t |-> "str", s |-> chars]
NoneVal == [t |-> "none", s |-> <<>>]
AbsentVal == [t |-> "absent", s |-> <<>>]

\* Truthiness of such a value: None and "" are falsy.
Truthy(x) == x.t = "str" /\ x.s # <<>>

\* A float: finite (kept in tenths, the inputs carry at most one fractional
\* digit), nan, inf or -inf.
Fin(tenths) == [k |-> "fin", v |-> tenths]
NaN == [k |-> "nan", v |-> 0]
PosInf == [k |-> "inf", v |-> 0]
NegInf == [k |-> "ninf", v |-> 0]

\* a + b
FAdd(a, b) ==
    IF a.k = "nan" \/ b.k = "nan" THEN NaN
    ELSE IF a.k = "fin" /\ b.k = "fin" THEN Fin(a.v + b.v)
    ELSE IF a.k = "fin" THEN b
    ELSE IF b.k = "fin" THEN a
    ELSE IF a.k = b.k THEN a
    ELSE NaN

\* x > 0
FPositive(x) == x.k = "inf" \/ (x.k = "fin" /\ x.v > 0)

\* int(x) truncates toward zero; int(nan) and int(inf) raise.
FIntDefined(x) == x.k = "fin"
FInt(x) == IF x.v >= 0 THEN x.v \div 10 ELSE -((-x.v) \div 10)

IsSpace(c) == c \in {9, 10, 11, 12, 13, 32}
IsDigit(c) == c \in 48..57
Lower(c) == IF c \in 65..90 THEN c + 32 ELSE c

RECURSIVE LStrip(_)
LStrip(s) == IF s # <<>> /\ IsSpace(Head(s)) THEN LStrip(Tail(s)) ELSE s
RECURSIVE RStrip(_)
RStrip(s) == IF s # <<>> /\ IsSpace(s[Len(s)]) THEN RStrip(SubSeq(s, 1, Len(s) - 1)) ELSE s

AllDigits(s) == \A i \in 1..Len(s) : IsDigit(s[i])

RECURSIVE DigitsValue(_)
DigitsValue(s) ==
    IF s = <<>> THEN 0 ELSE 10 * DigitsValue(SubSeq(s, 1, Len(s) - 1)) + (s[Len(s)] - 48)

\* float(text) for a str: surrounding whitespace is stripped, a sign is
\* optional, then "nan", "inf" or "infinity" in any case, or decimal digits
\* with at most one point and at least one digit.  Anything else raises
\* ValueError.  (Exponents and digit-group underscores are not among the
\* inputs enumerated below.)
FloatOfStr(text) ==
    LET t == RStrip(LStrip(text))
        signed == t # <<>> /\ t[1] \in {43, 45}
        neg == t # <<>> /\ t[1] = 45
        body == IF signed THEN Tail(t) ELSE t
        low == [i \in 1..Len(body) |-> Lower(body[i])]
        dots == {i \in 1..Len(body) : body[i] = 46}
        dot == IF dots = {} THEN Len(body) + 1 ELSE CHOOSE i \in dots : TRUE
        ip == SubSeq(body, 1, dot - 1)
        fp == SubSeq(body, dot + 1, Len(body))
        tenths == 10 * DigitsValue(ip) + (IF fp = <<>> THEN 0 ELSE fp[1] - 48)
    IN IF low = <<110, 97, 110>> THEN [ok |-> TRUE, val |-> NaN]
       ELSE IF low \in {<<105, 110, 102>>, <<105, 110, 102, 105, 110, 105, 116, 121>>}
       THEN [ok |-> TRUE, val |-> IF neg THEN NegInf ELSE PosInf]
       ELSE IF /\ Cardinality(dots) <= 1
               /\ AllDigits(ip) /\ AllDigits(fp)
               /\ Len(ip) + Len(fp) >= 1
       THEN [ok |-> TRUE, val |-> Fin(IF neg THEN -tenths ELSE tenths)]
       ELSE [ok |-> FALSE, val |-> Fin(0)]

(***************************************************************************)
(* daily_deliveries_report.py : parse_delivery_item                        *)
(***************************************************************************)
\* DRIVER_LABELS: index -> name.
DRIVER_LABEL_KEYS == {0, 1, 2, 3, 4, 6, 7, 8, 9, 10, 11}
DRIVER_LABELS(idx) ==
    CASE idx = 0 -> <<1513, 1497>>
      [] idx = 1 -> <<1488, 1493, 1512, 1497>>
      [] idx = 2 -> <<1504, 1488, 1491, 1512>>
      [] idx = 3 -> <<1513, 1508, 1506, 32, 1514, 1493, 1489, 1500, 1492>>
      [] idx = 4 -> <<1488, 1493, 1512, 1497, 32, 1504, 1490, 1500, 1492, 32, 50>>
      [] idx = 6 -> <<1492, 1508, 1510, 1492, 32, 1489, 1497, 1490, 32, 1500, 1493, 1490>>
      [] idx = 7 -> <<1513, 1497, 32, 1504, 1490, 1500, 1492, 32, 50>>
      [] idx = 8 -> <<1488, 1497, 1505, 1493, 1507, 32, 1506, 1510, 1502, 1497>>
      [] idx = 9 -> <<1505, 1493, 1499, 1503>>
      [] idx = 10 -> <<1497, 1513, 1512, 1488, 1500>>
      [] idx = 11 -> <<66, 76>>

\* The literal "unassigned" label and the prefix of the "driver <idx>" label.
UNASSIGNED == <<1500, 1488, 32, 1502, 1513, 1493, 1497, 1498>>
DRIVER_PREFIX == <<1504, 1492, 1490, 32>>

\* The 'value' of the driver column after json.loads.  t says what the string
\* is: "absent" (no key: the default "{}"), "none" (null), "empty" (""),
\* "braces" ("{}"), "undecodable" (json.loads raises JSONDecodeError),
\* "scalar" (a JSON number, `"index" in 5` raises TypeError), "array" (a JSON
\* array without the member "index"), "array_index" (an array holding
\* "index": subscripting it with a str raises TypeError), "object" (an object
\* without the key index), "index" (an object with the key index).
\* idx is the decoded index: an int, a str, None, or a list or object (which
\* is unhashable, so DRIVER_LABELS.get raises TypeError).
DriverValue(t, idx) == [t |-> t, idx |-> idx]
IdxInt(n) == [t |-> "int", n |-> n, s |-> <<>>]
IdxStr(chars) == [t |-> "str", n |-> 0, s |-> chars]
IdxNone == [t |-> "none", n |-> 0, s |-> <<>>]
IdxUnhashable == [t |-> "unhashable", n |-> 0, s |-> <<>>]

\* f"{idx}"
IdxFormat(idx) ==
    IF idx.t = "int" THEN IntStr(idx.n)
    ELSE IF idx.t = "str" THEN idx.s
    ELSE <<78, 111, 110, 101>>       \* "None"

\* A variant of the label lookup that indexes the table directly.
DriverOfIndexNoDefault(idx, driver_text) ==
    IF idx.t = "int" /\ idx.n \in DRIVER_LABEL_KEYS
    THEN [raised |-> FALSE, label |-> DRIVER_LABELS(idx.n)]
    ELSE [raised |-> TRUE, label |-> <<>>]

\* DRIVER_LABELS.get(idx, driver_text or f"נהג {idx}"): the label, or the
\* TypeError of an unhashable idx.
DriverOfIndex(idx, driver_text) ==
    IF idx.t = "unhashable" THEN [raised |-> TRUE, label |-> <<>>]
    ELSE IF idx.t = "int" /\ idx.n \in DRIVER_LABEL_KEYS
    THEN [raised |-> FALSE, label |-> DRIVER_LABELS(idx.n)]
    ELSE [raised |-> FALSE,
          label |-> IF Truthy(driver_text) THEN driver_text.s
                    ELSE DRIVER_PREFIX \o IdxFormat(idx)]

\* Lines 242-255: the driver label.  (JSONDecodeError, TypeError) are caught
\* and leave the first assignment in place.
ParseDriver(col) ==
    LET driver_text == IF col.text.t = "absent" THEN StrVal(<<>>) ELSE col.text
        first == IF Truthy(driver_text) THEN driver_text.s ELSE UNASSIGNED
        looked == DriverOfIndex(col.value.idx, driver_text)
    IN IF col.value.t = "index" /\ ~looked.raised THEN looked.label ELSE first

\* Lines 258-263: pallets.  col is the 'text' of the pallets column (absent
\* when the column or the key is missing).
ParsePallets(col) ==
    LET pallets_text == IF col.t = "absent" THEN StrVal(<<48>>) ELSE col
    IN IF ~Truthy(pallets_text) THEN Fin(0)
       ELSE IF FloatOfStr(pallets_text.s).ok THEN FloatOfStr(pallets_text.s).val
       ELSE Fin(0)

\* x.get("text", "") or item.get("name", "")
TextOrName(text, name) ==
    IF Truthy(text) THEN text.s ELSE name

\* parse_delivery_item(item, columns).  item is given by its name and the
\* 'text'/'value' of the columns the report reads; sku, description and
\* order are passed through unchanged and are left out.
parse_delivery_item(item) ==
    [driver |-> ParseDriver(item.driver),
     customer |-> TextOrName(item.customer, item.name),
     city |-> IF item.city.t = "absent" THEN StrVal(<<>>) ELSE item.city,
     pallets |-> ParsePallets(item.pallets)]

\* ---- one call of parse_delivery_item on an item of any shape ----
DriverTexts == {AbsentVal, NoneVal, StrVal(<<>>), StrVal(<<1491, 1504, 1497>>)}

DriverValues ==
    {DriverValue(t, IdxNone) :
        t \in {"absent", "none", "empty", "braces", "undecodable", "scalar",
               "array", "array_index", "object"}}
    \cup {DriverValue("index", i) :
            i \in {IdxInt(0), IdxInt(7), IdxInt(5), IdxInt(12), IdxStr(<<53>>),
                   IdxNone, IdxUnhashable}}

\* 'text' of the pallets column: "", "0", "2", "3", "5", "1.5", "-2", " 4 ",
\* "abc", "1,5", ".", "nan", "inf".
PalletTexts ==
    {AbsentVal, NoneVal}
    \cup {StrVal(t) : t \in {<<>>, <<48>>, <<50>>, <<51>>, <<53>>, <<49, 46, 53>>, <<45, 50>>, <<32, 52, 32>>,
                             <<97, 98, 99>>, <<49, 44, 53>>, <<46>>, <<110, 97, 110>>, <<105, 110, 102>>}}

CUSTOMER_A == <<1513, 1493, 1508, 1512, 1505, 1500, 32, 1491, 1497, 1500, 32, 1495, 1497, 1508, 1492>>
CUSTOMER_B == <<1512, 1502, 1497, 32, 1500, 1493, 1497, 32, 1504, 1514, 1504, 1497, 1492>>
ITEM_NAME == <<1502, 1513, 1500, 1493, 1495, 32, 49, 48, 52, 49>>
CITY_A == <<1495, 1497, 1508, 1492>>

WideItems ==
    [driver : [text : DriverTexts, value : DriverValues],
     pallets : PalletTexts,
     customer : {AbsentVal, NoneVal, StrVal(<<>>), StrVal(CUSTOMER_A)},
     name : {<<>>, ITEM_NAME},
     city : {AbsentVal, NoneVal, StrVal(CITY_A)}]

PDParse ==
    /\ pd_pc = "call"
    /\ pd_row' = parse_delivery_item(pd_item)
    /\ pd_pc' = "returned"
    /\ UNCHANGED pd_item
    /\ UNCHANGED pdRest

InitParse ==
    /\ pd_pc = "call"
    /\ pd_item \in WideItems
    /\ pd_row = <<>>
    /\ OthersIdlePD

NextParse == PDParse

SpecParse == InitParse /\ [][NextParse]_vars

(***************************************************************************)
(* daily_deliveries_report.py : group_by_driver,                           *)
(* group_by_driver_and_customer                                            *)
(*                                                                         *)
(* A dict is a sequence of [key, items] entries in insertion order; the    *)
(* rows are the dicts returned by parse_delivery_item, so the keys         *)
(* "driver", "customer", "city" and "pallets" are always present and the   *)
(* defaults of d.get are never taken.                                      *)
(***************************************************************************)
HasKey(grouped, key) == \E i \in DOMAIN grouped : grouped[i].key = key

\* A variant of the insertion that assigns a fresh list to the key each time.
GroupInsertOverwrite(grouped, key, d) ==
    IF HasKey(grouped, key)
    THEN [i \in DOMAIN grouped |->
            IF grouped[i].key = key THEN [key |-> key, items |-> <<d>>]
            ELSE grouped[i]]
    ELSE Append(grouped, [key |-> key, items |-> <<d>>])

\* if key not in grouped: grouped[key] = []
\* grouped[key].append(d)
GroupInsert(grouped, key, d) ==
    IF HasKey(grouped, key)
    THEN [i \in DOMAIN grouped |->
            IF grouped[i].key = key
            THEN [key |-> key, items |-> Append(grouped[i].items, d)]
            ELSE grouped[i]]
    ELSE Append(grouped, [key |-> key, items |-> <<d>>])

\* The same for the nested dict {driver: {customer: [items]}}.
GroupInsert2(grouped, driver, customer, d) ==
    IF HasKey(grouped, driver)
    THEN [i \in DOMAIN grouped |->
            IF grouped[i].key = driver
            THEN [key |-> driver,
                  items |-> GroupInsert(grouped[i].items, customer, d)]
            ELSE grouped[i]]
    ELSE Append(grouped, [key |-> driver,
                          items |-> GroupInsert(<<>>, customer, d)])

\* A variant of the sort that leaves the entries in insertion order.
InsertUnsorted(sorted, e) == Append(sorted, e)

\* sorted(grouped.items()): keys are distinct strings, so the order of the
\* (key, value) tuples is the order of the keys.
InsertSorted(sorted, e) ==
    LET n == Cardinality({i \in DOMAIN sorted : StrLess(sorted[i].key, e.key)})
    IN SubSeq(sorted, 1, n) \o <<e>> \o SubSeq(sorted, n + 1, Len(sorted))

RECURSIVE SortedItems(_)
SortedItems(grouped) ==
    IF grouped = <<>> THEN <<>>
    ELSE InsertSorted(SortedItems(SubSeq(grouped, 1, Len(grouped) - 1)),
                      grouped[Len(grouped)])

\* The loop `for d in deliveries` of group_by_driver.
RECURSIVE GroupLoop(_)
GroupLoop(deliveries) ==
    IF deliveries = <<>> THEN <<>>
    ELSE LET d == deliveries[Len(deliveries)]
         IN GroupInsert(GroupLoop(SubSeq(deliveries, 1, Len(deliveries) - 1)),
                        d.driver, d)

group_by_driver(deliveries) == SortedItems(GroupLoop(deliveries))

\* The loop `for d in deliveries` of group_by_driver_and_customer.
RECURSIVE GroupLoop2(_)
GroupLoop2(deliveries) ==
    IF deliveries = <<>> THEN <<>>
    ELSE LET d == deliveries[Len(deliveries)]
         IN GroupInsert2(GroupLoop2(SubSeq(deliveries, 1, Len(deliveries) - 1)),
                         d.driver, d.customer, d)

\* {k: dict(sorted(v.items())) for k, v in sorted(grouped.items())}
group_by_driver_and_customer(deliveries) ==
    LET outer == SortedItems(GroupLoop2(deliveries))
    IN [i \in DOMAIN outer |->
          [key |-> outer[i].key, items |-> SortedItems(outer[i].items)]]

(***************************************************************************)
(* daily_deliveries_report.py : format_whatsapp_message                    *)
(***************************************************************************)
\* The literals of the f-strings, as code points; date is target_date
\* "2026-01-05" after strptime/strftime("%d.%m.%Y").
MSG ==
    [title |-> <<128666, 32, 1492, 1508, 1510, 1493, 1514, 32, 1492, 1497, 1493, 1501, 32, 45, 32>>,
     no_deliveries |-> <<10, 10, 9989, 32, 1488, 1497, 1503, 32, 1492, 1508, 1510, 1493, 1514, 32, 1502, 1514, 1493, 1499, 1504, 1504, 1493, 1514, 32, 1500, 1492, 1497, 1493, 1501, 46>>,
     pin |-> <<128205, 32>>,
     open |-> <<32, 40>>,
     customers_comma |-> <<32, 1500, 1511, 1493, 1495, 1493, 1514, 44, 32>>,
     rows |-> <<32, 1513, 1493, 1512, 1493, 1514>>,
     comma |-> <<44, 32>>,
     pallets |-> <<32, 1502, 1513, 1496, 1495, 1497, 1501>>,
     close |-> <<41, 58>>,
     bullet |-> <<32, 32, 8226, 32>>,
     dash |-> <<32, 45, 32>>,
     pallets_short |-> <<32, 1502, 1513, 39, 41>>,
     more |-> <<32, 32, 8226, 32, 46, 46, 46, 32, 1493, 1506, 1493, 1491, 32>>,
     customers |-> <<32, 1500, 1511, 1493, 1495, 1493, 1514>>,
     separator |-> [i \in 1..24 |-> 9473],
     total |-> <<1505, 1492, 34, 1499, 58, 32>>,
     rows_bar |-> <<32, 1513, 1493, 1512, 1493, 1514, 32, 124, 32>>,
     drivers |-> <<32, 1504, 1492, 1490, 1497, 1501>>,
     bar |-> <<32, 124, 32>>,
     date_formatted |-> <<48, 53, 46, 48, 49, 46, 50, 48, 50, 54>>]

\* At most this many customers are listed under a driver.
MAX_SHOWN == 5

\* sum(item.get("pallets", 0) for item in items): a left fold from 0.
RECURSIVE SumPallets(_)
SumPallets(items) ==
    IF items = <<>> THEN Fin(0)
    ELSE FAdd(SumPallets(SubSeq(items, 1, Len(items) - 1)), items[Len(items)].pallets)

\* A variant that lists a customer once per row.
RECURSIVE CustomersWithRepeats(_)
CustomersWithRepeats(items) ==
    IF items = <<>> THEN <<>>
    ELSE LET before == CustomersWithRepeats(SubSeq(items, 1, Len(items) - 1))
             c == items[Len(items)].customer
         IN IF c = <<>> THEN before ELSE Append(before, c)

\* The distinct non-empty customers of items, in order of first appearance.
RECURSIVE CustomersInOrder(_)
CustomersInOrder(items) ==
    IF items = <<>> THEN <<>>
    ELSE LET before == CustomersInOrder(SubSeq(items, 1, Len(items) - 1))
             c == items[Len(items)].customer
         IN IF c = <<>> \/ (\E i \in DOMAIN before : before[i] = c)
            THEN before ELSE Append(before, c)

\* [i for i in items if i.get("customer") == customer]
OfCustomer(items, customer) == SelectSeq(items, LAMBDA i : i.customer = customer)

\* f"{prefix}{int(x)}{suffix}" if x > 0 else "".  int(x) raises for inf.
PalletsStr(prefix, x, suffix) ==
    IF FPositive(x) THEN prefix \o IntStr(FInt(x)) \o suffix ELSE <<>>
PalletsRaises(x) == FPositive(x) /\ ~FIntDefined(x)

\* Lines 548-557: the line of one listed customer.
CustomerLine(items, customer) ==
    LET first == OfCustomer(items, customer)[1]
        city_str == IF Truthy(first.city) THEN MSG.dash \o first.city.s ELSE <<>>
        cust_pallets == SumPallets(OfCustomer(items, customer))
    IN [raised |-> PalletsRaises(cust_pallets),
        line |-> MSG.bullet \o customer \o city_str
                   \o PalletsStr(MSG.open, cust_pallets, MSG.pallets_short)]

\* Lines 534-562: one iteration of `for driver, items in grouped.items()`.
DriverBlock(driver, items) ==
    LET driver_pallets == SumPallets(items)
        driver_rows == Len(items)
        customers == CustomersInOrder(items)
        n_shown == IF Len(customers) < MAX_SHOWN THEN Len(customers) ELSE MAX_SHOWN
        shown == [i \in 1..n_shown |-> CustomerLine(items, customers[i])]
        header == MSG.pin \o driver \o MSG.open \o NatStr(Len(customers))
                    \o MSG.customers_comma \o NatStr(driver_rows) \o MSG.rows
                    \o PalletsStr(MSG.comma, driver_pallets, MSG.pallets)
                    \o MSG.close
        more == IF Len(customers) > MAX_SHOWN
                THEN <<MSG.more \o NatStr(Len(customers) - MAX_SHOWN) \o MSG.customers>>
                ELSE <<>>
    IN [raised |-> PalletsRaises(driver_pallets)
                     \/ \E i \in 1..n_shown : shown[i].raised,
        driver |-> driver,
        driver_rows |-> driver_rows,
        driver_pallets |-> driver_pallets,
        customers |-> Len(customers),
        pallets_shown |-> IF FPositive(driver_pallets) THEN FInt(driver_pallets) ELSE 0,
        lines |-> <<header>> \o [i \in 1..n_shown |-> shown[i].line] \o more \o <<<<>>>>]

RECURSIVE BlockLines(_)
BlockLines(blocks) ==
    IF blocks = <<>> THEN <<>> ELSE Head(blocks).lines \o BlockLines(Tail(blocks))

RECURSIVE TotalRows(_)
TotalRows(blocks) ==
    IF blocks = <<>> THEN 0
    ELSE TotalRows(SubSeq(blocks, 1, Len(blocks) - 1)) + blocks[Len(blocks)].driver_rows

RECURSIVE TotalPallets(_)
TotalPallets(blocks) ==
    IF blocks = <<>> THEN Fin(0)
    ELSE FAdd(TotalPallets(SubSeq(blocks, 1, Len(blocks) - 1)),
              blocks[Len(blocks)].driver_pallets)

\* format_whatsapp_message(deliveries, target_date): the text, or the
\* exception of int(); with it the numbers the text renders.
format_whatsapp_message(deliveries) ==
    IF deliveries = <<>>
    THEN [raised |-> FALSE,
          text |-> MSG.title \o MSG.date_formatted \o MSG.no_deliveries,
          groups |-> <<>>, total_rows |-> 0, total_pallets |-> Fin(0),
          total_shown |-> 0]
    ELSE LET grouped == group_by_driver(deliveries)
             blocks == [i \in DOMAIN grouped |->
                          DriverBlock(grouped[i].key, grouped[i].items)]
             total_rows == TotalRows(blocks)
             total_pallets == TotalPallets(blocks)
             lines == <<MSG.title \o MSG.date_formatted, <<>>>>
                        \o BlockLines(blocks)
                        \o <<MSG.separator,
                             MSG.total \o NatStr(total_rows) \o MSG.rows_bar
                               \o NatStr(Len(grouped)) \o MSG.drivers
                               \o PalletsStr(MSG.bar, total_pallets, MSG.pallets)>>
         IN [raised |-> PalletsRaises(total_pallets)
                          \/ \E i \in DOMAIN blocks : blocks[i].raised,
             text |-> JoinLines(lines),
             groups |-> blocks,
             total_rows |-> total_rows,
             total_pallets |-> total_pallets,
             total_shown |-> IF FPositive(total_pallets) THEN FInt(total_pallets) ELSE 0]

(***************************************************************************)
(* daily_deliveries_report.py : create_excel_report, summary sheet         *)
(***************************************************************************)
\* int(x) if x > 0 else "": a cell value is an int, or the empty string.
PalletsCell(x) ==
    IF FPositive(x) THEN [t |-> "int", n |-> FInt(x)] ELSE [t |-> "str", n |-> 0]

\* acc += customer_pallets, for each customer of one driver in turn.
RECURSIVE AddCustomers(_, _)
AddCustomers(acc, customers) ==
    IF customers = <<>> THEN acc
    ELSE FAdd(AddCustomers(acc, SubSeq(customers, 1, Len(customers) - 1)),
              SumPallets(customers[Len(customers)].items))

\* total_pallets after the drivers of grouped, in turn.
RECURSIVE AddDrivers(_)
AddDrivers(grouped) ==
    IF grouped = <<>> THEN Fin(0)
    ELSE AddCustomers(AddDrivers(SubSeq(grouped, 1, Len(grouped) - 1)),
                      grouped[Len(grouped)].items)

RECURSIVE CountCustomers(_)
CountCustomers(grouped) ==
    IF grouped = <<>> THEN 0
    ELSE CountCustomers(Tail(grouped)) + Len(Head(grouped).items)

\* Lines 380-423: the rows of one driver and its subtotal row.
SummaryDriver(driver, customers) ==
    LET driver_pallets == AddCustomers(Fin(0), customers)
    IN [raised |-> PalletsRaises(driver_pallets)
                     \/ \E j \in DOMAIN customers :
                          PalletsRaises(SumPallets(customers[j].items)),
        driver |-> driver,
        rows |-> [j \in DOMAIN customers |->
                    [pallets |-> PalletsCell(SumPallets(customers[j].items)),
                     city |-> customers[j].items[1].city,
                     customer |-> customers[j].key,
                     driver |-> IF j = 1 THEN driver ELSE <<>>]],
        subtotal |-> PalletsCell(driver_pallets),
        driver_customers |-> Len(customers)]

\* create_excel_report(deliveries, target_date): what the summary sheet
\* holds, or the exception of int().
create_excel_report(deliveries) ==
    LET grouped == group_by_driver_and_customer(deliveries)
        drivers == [i \in DOMAIN grouped |->
                      SummaryDriver(grouped[i].key, grouped[i].items)]
        total_pallets == AddDrivers(grouped)
    IN [raised |-> \/ \E i \in DOMAIN drivers : drivers[i].raised
                   \/ PalletsRaises(total_pallets)
                   \/ \E i \in DOMAIN deliveries :      \* details sheet, line 497
                        PalletsRaises(deliveries[i].pallets),
        drivers |-> drivers,
        grand |-> PalletsCell(total_pallets),
        total_customers |-> CountCustomers(grouped),
        n_drivers |-> Len(grouped)]

(***************************************************************************)
(* daily_deliveries_report.py : query_monday_deliveries and main           *)
(***************************************************************************)
\* An item of the board whose status column carries index idx.
BoardItem(idx, customer, city, pallets_text) ==
    [driver |-> [text |-> StrVal(<<>>), value |-> DriverValue("index", IdxInt(idx))],
     pallets |-> StrVal(pallets_text),
     customer |-> StrVal(customer),
     name |-> ITEM_NAME,
     city |-> city]

\* Items the board returns for the target date; pallets "2", "3", "5",
\* "1.5", "-2" and "inf".
BoardItems ==
    {BoardItem(0, CUSTOMER_A, StrVal(CITY_A), <<50>>),
     BoardItem(0, CUSTOMER_A, StrVal(CITY_A), <<51>>),
     BoardItem(0, CUSTOMER_B, AbsentVal, <<53>>),
     BoardItem(1, CUSTOMER_A, StrVal(CITY_A), <<49, 46, 53>>),
     BoardItem(0, CUSTOMER_B, NoneVal, <<49, 46, 53>>),
     BoardItem(7, CUSTOMER_A, StrVal(CITY_A), <<45, 50>>),
     BoardItem(1, CUSTOMER_B, StrVal(CITY_A), <<105, 110, 102>>),
     \* an item with no driver, no customer text and no pallets
     [driver |-> [text |-> AbsentVal, value |-> DriverValue("absent", IdxNone)],
      pallets |-> StrVal(<<>>),
      customer |-> AbsentVal,
      name |-> ITEM_NAME,
      city |-> AbsentVal]}

\* A long board: n items spread over three drivers, each with its own
\* customer name.
BulkItems(n) ==
    [i \in 1..n |->
       BoardItem(i % 3, CUSTOMER_A \o <<32>> \o NatStr(i), StrVal(CITY_A), <<50>>)]

\* A long route: n items of one driver over seven customers, so that some
\* customers come back later in the list.
RouteItems(n) ==
    [i \in 1..n |->
       BoardItem(0, CUSTOMER_A \o <<32>> \o NatStr(i % 7), StrVal(CITY_A), <<50>>)]

\* An item with an empty customer column and no name: item.get("name", "")
\* is "", so parse_delivery_item gives it the customer "".
UnnamedItem(idx) ==
    [driver |-> [text |-> StrVal(<<>>), value |-> DriverValue("index", IdxInt(idx))],
     pallets |-> StrVal(<<50>>),
     customer |-> StrVal(<<>>),
     name |-> <<>>,
     city |-> StrVal(CITY_A)]

\* Boards on which some rows have no customer.
UnnamedLists ==
    {<<UnnamedItem(0)>>,
     <<BoardItem(0, CUSTOMER_A, StrVal(CITY_A), <<50>>), UnnamedItem(0)>>,
     <<UnnamedItem(1), BoardItem(0, CUSTOMER_B, StrVal(CITY_A), <<51>>),
       BoardItem(1, CUSTOMER_A, StrVal(CITY_A), <<50>>), UnnamedItem(1)>>}

ItemLists ==
    SeqsUpTo(BoardItems, MaxItems)
      \cup {BulkItems(n) : n \in 0..MaxBulk}
      \cup {RouteItems(n) : n \in 0..MaxBulk}
      \cup UnnamedLists

\* deliveries.append(parse_delivery_item(item, columns)) for every item.
ParseAll(items) == [i \in DOMAIN items |-> parse_delivery_item(items[i])]

\* A variant of the return in which the rows parsed before an exception are
\* kept.
QueryReturnKeepPartial(o, items) ==
    IF o \in {"items", "exception"} THEN ParseAll(items) ELSE <<>>

\* What query_monday_deliveries returns when its request ended with outcome
\* o: the parsed rows, or [] when an exception interrupted the loop (the
\* rows parsed so far are dropped, line 161).
QueryReturn(o, items) == IF o = "items" THEN ParseAll(items) ELSE <<>>

\* A variant that turns to the fallback after any failure of the request.
UsesFallbackOnAnyFailure(o) == o \in {"errors", "request_exception", "exception"}

\* `return query_monday_deliveries_fallback(target_date)` is reached when the
\* body carries "errors" (line 147) and in the handler of RequestException
\* (line 161); any other exception returns [] (line 164).
UsesFallback(o) == o \in {"errors", "request_exception"}

\* query_monday_deliveries, up to its return or its call of the fallback.
\* Without a token it returns [] before any request (lines 99-101).
\* Otherwise the request ends in one of: a body with items; a body with
\* "errors"; a RequestException (connection, timeout, raise_for_status);
\* any other exception.
DDQuery ==
    /\ dd_pc = "query_monday_deliveries"
    /\ \E o \in IF dd_token THEN {"items", "errors", "request_exception", "exception"}
                ELSE {"no_token"} :
         /\ IF UsesFallback(o)
            THEN /\ dd_deliveries' = <<>>
                 /\ dd_pc' = "query_monday_deliveries_fallback"
            ELSE /\ \E items \in ItemLists : dd_deliveries' = QueryReturn(o, items)
                 /\ dd_pc' = "format_whatsapp_message"
         /\ dd_fetch' = o
         /\ dd_requests' = IF o = "no_token" THEN dd_requests
                           ELSE Append(dd_requests,
                                       [fn |-> "query_monday_deliveries", outcome |-> o])
    /\ dd_calls' = Append(dd_calls, Call("query_monday_deliveries", <<>>, ""))
    /\ UNCHANGED <<dd_grouped, dd_message, dd_grouped2, dd_summary,
                   dd_raised_in, dd_file_uid, dd_sent, dd_token>>
    /\ UNCHANGED ddRest

\* query_monday_deliveries_fallback: one request for the whole board; the
\* items whose date is the target date, or [] on any exception.
DDFallback ==
    /\ dd_pc = "query_monday_deliveries_fallback"
    /\ \E ok \in BOOLEAN :
         /\ IF ok THEN /\ \E items \in ItemLists : dd_deliveries' = ParseAll(items)
                       /\ dd_fetch' = "fallback_items"
            ELSE /\ dd_deliveries' = <<>>
                 /\ dd_fetch' = "fallback_exception"
         /\ dd_requests' = Append(dd_requests,
                                  [fn |-> "query_monday_deliveries_fallback",
                                   outcome |-> IF ok THEN "items" ELSE "exception"])
    /\ dd_pc' = "format_whatsapp_message"
    /\ dd_calls' = Append(dd_calls, Call("query_monday_deliveries_fallback", <<>>, ""))
    /\ UNCHANGED <<dd_grouped, dd_message, dd_grouped2, dd_summary,
                   dd_raised_in, dd_file_uid, dd_sent, dd_token>>
    /\ UNCHANGED ddRest

\* main line 637: message = format_whatsapp_message(deliveries, target_date)
DDFormat ==
    /\ dd_pc = "format_whatsapp_message"
    /\ LET m == format_whatsapp_message(dd_deliveries)
       IN /\ dd_grouped' = group_by_driver(dd_deliveries)
          /\ IF m.raised
             THEN /\ dd_pc' = "raised"
                  /\ dd_raised_in' = "format_whatsapp_message"
                  /\ UNCHANGED dd_message
             ELSE /\ dd_pc' = "send_text"
                  /\ dd_message' = m.text
                  /\ UNCHANGED dd_raised_in
    /\ dd_calls' = Append(dd_calls, Call("format_whatsapp_message", <<>>, ""))
    /\ UNCHANGED <<dd_deliveries, dd_grouped2, dd_summary, dd_file_uid, dd_sent,
                   dd_token, dd_fetch,
                   dd_requests>>
    /\ UNCHANGED ddRest

\* A variant of main that builds the workbook whatever the fetch returned.
AfterSendTextAlways(deliveries) == "create_excel_report"

\* main line 644, `if deliveries:`: the workbook is built, uploaded and sent
\* only when there is at least one delivery.
AfterSendText(deliveries) ==
    IF deliveries # <<>> THEN "create_excel_report" ELSE "end"

\* main line 641: send_whatsapp_message(WHATSAPP_PHONE, text=message); every
\* exception is caught and gives False, which main ignores.
DDSendText ==
    /\ dd_pc = "send_text"
    /\ \E ok \in BOOLEAN :
         dd_sent' = IF ok THEN Append(dd_sent, [text |-> dd_message, file_uid |-> ""])
                    ELSE dd_sent
    /\ dd_pc' = AfterSendText(dd_deliveries)
    /\ dd_calls' = Append(dd_calls, Call("send_whatsapp_message", dd_message, ""))
    /\ UNCHANGED <<dd_deliveries, dd_grouped, dd_message, dd_grouped2, dd_summary,
                   dd_raised_in, dd_file_uid, dd_token, dd_fetch,
                   dd_requests>>
    /\ UNCHANGED ddRest

\* main lines 644-652: the workbook is built and saved locally.
DDCreateExcel ==
    /\ dd_pc = "create_excel_report"
    /\ LET x == create_excel_report(dd_deliveries)
       IN /\ dd_grouped2' = group_by_driver_and_customer(dd_deliveries)
          /\ IF x.raised
             THEN /\ dd_pc' = "raised"
                  /\ dd_raised_in' = "create_excel_report"
                  /\ UNCHANGED dd_summary
             ELSE /\ dd_pc' = "upload_to_timelines"
                  /\ dd_summary' = [drivers |-> x.drivers, grand |-> x.grand,
                                    total_customers |-> x.total_customers,
                                    n_drivers |-> x.n_drivers]
                  /\ UNCHANGED dd_raised_in
    /\ dd_calls' = Append(dd_calls, Call("create_excel_report", <<>>, ""))
    /\ UNCHANGED <<dd_deliveries, dd_grouped, dd_message, dd_file_uid, dd_sent,
                   dd_token, dd_fetch,
                   dd_requests>>
    /\ UNCHANGED ddRest

\* A variant of main that sends the file message whatever the upload
\* returned.
AfterUploadAlwaysSend(uid) == "send_file"

\* What main does with the value upload_to_timelines returned (line 656):
\* the file message is sent only `if file_uid`.
AfterUpload(uid) == IF uid # "" THEN "send_file" ELSE "end"

\* upload_to_timelines: data.get("uid", "") on success, "" on any exception.
DDUpload ==
    /\ dd_pc = "upload_to_timelines"
    /\ \E uid \in {"", "uid-1"} :
         /\ dd_file_uid' = uid
         /\ dd_pc' = AfterUpload(uid)
    /\ dd_calls' = Append(dd_calls, Call("upload_to_timelines", <<>>, ""))
    /\ UNCHANGED <<dd_deliveries, dd_grouped, dd_message, dd_grouped2, dd_summary,
                   dd_raised_in, dd_sent, dd_token, dd_fetch,
                   dd_requests>>
    /\ UNCHANGED ddRest

\* main line 657: send_whatsapp_message(WHATSAPP_PHONE, file_uid=file_uid)
DDSendFile ==
    /\ dd_pc = "send_file"
    /\ \E ok \in BOOLEAN :
         dd_sent' = IF ok THEN Append(dd_sent, [text |-> <<>>, file_uid |-> dd_file_uid])
                    ELSE dd_sent
    /\ dd_pc' = "end"
    /\ dd_calls' = Append(dd_calls, Call("send_whatsapp_message", <<>>, dd_file_uid))
    /\ UNCHANGED <<dd_deliveries, dd_grouped, dd_message, dd_grouped2, dd_summary,
                   dd_raised_in, dd_file_uid, dd_token, dd_fetch,
                   dd_requests>>
    /\ UNCHANGED ddRest

\* MONDAY_API_TOKEN is read with os.environ.get (line 33): the script starts
\* whether or not it is set.
InitDeliveries ==
    /\ dd_pc = "query_monday_deliveries"
    /\ dd_token \in BOOLEAN
    /\ dd_fetch = ""
    /\ dd_calls = <<>>
    /\ dd_requests = <<>>
    /\ dd_deliveries = <<>>
    /\ dd_grouped = <<>>
    /\ dd_message = <<>>
    /\ dd_grouped2 = <<>>
    /\ dd_summary = <<>>
    /\ dd_raised_in = ""
    /\ dd_file_uid = ""
    /\ dd_sent = <<>>
    /\ OthersIdleDD

NextDeliveries ==
    \/ DDQuery
    \/ DDFallback
    \/ DDFormat
    \/ DDSendText
    \/ DDCreateExcel
    \/ DDUpload
    \/ DDSendFile

SpecDeliveries == InitDeliveries /\ [][NextDeliveries]_vars

(***************************************************************************)
(* daily_deliveries_report.py : parsing and grouping the same raw items    *)
(* twice                                                                   *)
(***************************************************************************)
\* A variant in which a run consumes the list it was given (the items are
\* popped as they are parsed).
InputAfterConsumed(items) == <<>>

\* What the list of raw items holds after it was parsed and the rows were
\* grouped: parse_delivery_item only reads item and columns (.get), and the
\* grouping functions append the rows to dicts and lists of their own, so
\* the argument is left as it was.
InputAfter(items) == items

\* The rows and the two groupings computed from a list of raw items.
ParseAndGroup(items) ==
    LET rows == ParseAll(items)
    IN <<rows, group_by_driver(rows), group_by_driver_and_customer(rows)>>

TWFirst ==
    /\ tw_pc = "first"
    /\ tw_first' = ParseAndGroup(tw_items)
    /\ tw_items' = InputAfter(tw_items)
    /\ tw_pc' = "second"
    /\ UNCHANGED <<tw_input, tw_second>>
    /\ UNCHANGED twRest

TWSecond ==
    /\ tw_pc = "second"
    /\ tw_second' = ParseAndGroup(tw_items)
    /\ tw_items' = InputAfter(tw_items)
    /\ tw_pc' = "done"
    /\ UNCHANGED <<tw_input, tw_first>>
    /\ UNCHANGED twRest

InitTwice ==
    /\ tw_pc = "first"
    /\ tw_input \in ItemLists
    /\ tw_items = tw_input
    /\ tw_first = <<>>
    /\ tw_second = <<>>
    /\ OthersIdleTW

NextTwice == TWFirst \/ TWSecond

SpecTwice == InitTwice /\ [][NextTwice]_vars

(***************************************************************************)
(* email_digest.py                                                         *)
(***************************************************************************)
finance_keywords ==
    {<<1495, 1513, 1489, 1493, 1504, 1497, 1514>>,
     <<1514, 1513, 1500, 1493, 1501>>,
     <<1492, 1506, 1489, 1512, 1492>>,
     <<105, 110, 118, 111, 105, 99, 101>>,
     <<112, 97, 121, 109, 101, 110, 116>>,
     <<98, 97, 110, 107>>,
     <<1489, 1504, 1511>>}
order_keywords ==
    {<<1492, 1494, 1502, 1504, 1492>>,
     <<1502, 1513, 1500, 1493, 1495>>,
     <<112, 111>>,
     <<111, 114, 100, 101, 114>>,
     <<115, 104, 105, 112, 109, 101, 110, 116>>,
     <<100, 101, 108, 105, 118, 101, 114, 121>>,
     <<1502, 1499, 1493, 1500, 1492>>}
urgent_keywords ==
    {<<1491, 1495, 1493, 1507>>,
     <<117, 114, 103, 101, 110, 116>>,
     <<97, 115, 97, 112>>,
     <<1495, 1513, 1493, 1489>>,
     <<105, 109, 112, 111, 114, 116, 97, 110, 116>>,
     <<1502, 1497, 1497, 1491, 1497>>}
GAYA == <<103, 97, 121, 97>>

\* kw in text
Contains(text, kw) ==
    \E i \in 1..(Len(text) - Len(kw) + 1) : SubSeq(text, i, i + Len(kw) - 1) = kw

\* s.lower()
LowerStr(s) == [i \in 1..Len(s) |-> Lower(s[i])]

\* The category one email is appended to (lines 87-105).  "gaya-foods" in
\* from_email implies "gaya" in from_email, so the one test stands for both.
CategoryOf(email) ==
    LET combined_text == LowerStr(email.subject.s) \o <<32>> \o LowerStr(email.bodyPreview)
        from_email == LowerStr(email.address)
    IN IF email.importance = "high"
          \/ \E kw \in urgent_keywords : Contains(combined_text, kw) THEN "urgent"
       ELSE IF \E kw \in finance_keywords : Contains(combined_text, kw) THEN "finance"
       ELSE IF \E kw \in order_keywords : Contains(combined_text, kw) THEN "orders"
       ELSE IF Contains(from_email, GAYA) THEN "internal"
       ELSE "other"

\* categorize_emails(emails): the five lists, or the AttributeError of
\* None.lower() for an email whose subject is null.
categorize_emails(emails) ==
    [raised |-> \E i \in DOMAIN emails : emails[i].subject.t = "none",
     urgent |-> SelectSeq(emails, LAMBDA e : CategoryOf(e) = "urgent"),
     finance |-> SelectSeq(emails, LAMBDA e : CategoryOf(e) = "finance"),
     orders |-> SelectSeq(emails, LAMBDA e : CategoryOf(e) = "orders"),
     internal |-> SelectSeq(emails, LAMBDA e : CategoryOf(e) = "internal"),
     other |-> SelectSeq(emails, LAMBDA e : CategoryOf(e) = "other")]

\* The literals of create_fallback_summary and of main's empty-inbox text;
\* today is datetime.now().strftime("%d.%m") on 5 January.
FB ==
    [greeting |-> <<9728, 65039, 32, 1489, 1493, 1511, 1512, 32, 1496, 1493, 1489, 33, 32, 124, 32>>,
     mail |-> <<128236, 32>>,
     mails_bar |-> <<32, 1502, 1497, 1497, 1500, 1497, 1501, 32, 124, 32, 128308, 32>>,
     urgent_count |-> <<32, 1491, 1495, 1493, 1508, 1497, 1501>>,
     urgent |-> <<10, 9889, 32, 1491, 1495, 1493, 1507, 58>>,
     bullet |-> <<8226, 32>>,
     colon |-> <<58, 32>>,
     finance |-> <<10, 128176, 32, 1499, 1505, 1508, 1497, 1501, 32, 40>>,
     orders |-> <<128230, 32, 1492, 1494, 1502, 1504, 1493, 1514, 32, 40>>,
     close |-> <<41>>,
     no_emails |-> <<10, 10, 128236, 32, 1488, 1497, 1503, 32, 1502, 1497, 1497, 1500, 1497, 1501, 32, 1495, 1491, 1513, 1497, 1501, 32, 1502, 1488, 1514, 1502, 1493, 1500, 32, 49, 57, 58, 48, 48, 10, 10, 127919, 32, 1497, 1493, 1501, 32, 1508, 1512, 1493, 1491, 1493, 1511, 1496, 1497, 1489, 1497, 33>>,
     today |-> <<48, 53, 46, 48, 49>>]

\* create_fallback_summary(emails, categories)
create_fallback_summary(emails, categories) ==
    LET urgent == categories.urgent
        n_urgent == IF Len(urgent) < 2 THEN Len(urgent) ELSE 2
        urgent_lines ==
            IF urgent = <<>> THEN <<>>
            ELSE <<FB.urgent>> \o
                 [i \in 1..n_urgent |->
                    FB.bullet \o Prefix(urgent[i].name, 15) \o FB.colon
                      \o Prefix(urgent[i].subject.s, 25)]
        finance_lines ==
            IF categories.finance = <<>> THEN <<>>
            ELSE <<FB.finance \o NatStr(Len(categories.finance)) \o FB.close>>
        orders_lines ==
            IF categories.orders = <<>> THEN <<>>
            ELSE <<FB.orders \o NatStr(Len(categories.orders)) \o FB.close>>
        lines == <<FB.greeting \o FB.today,
                   FB.mail \o NatStr(Len(emails)) \o FB.mails_bar
                     \o NatStr(Len(urgent)) \o FB.urgent_count>>
                   \o urgent_lines \o finance_lines \o orders_lines
    IN Prefix(JoinLines(lines), 500)

\* ---- email_digest.py : main ----

\* A message of the Graph API, by the fields the script reads.
Email(subject, address, name, importance) ==
    [subject |-> subject, bodyPreview |-> <<>>, address |-> address,
     name |-> name, importance |-> importance]

\* Subjects "Invoice 12", "URGENT: payment overdue for invoice 2231",
\* "PO 55 shipped", "hello" and null; an internal and an external sender.
Emails ==
    LET SUBJ_INVOICE == <<73, 110, 118, 111, 105, 99, 101, 32, 49, 50>>
        SUBJ_URGENT_LONG == <<85, 82, 71, 69, 78, 84, 58, 32, 112, 97, 121, 109, 101, 110, 116, 32, 111, 118, 101, 114, 100, 117, 101, 32, 102, 111, 114, 32, 105, 110, 118, 111, 105, 99, 101, 32, 50, 50, 51, 49>>
        SUBJ_PO == <<80, 79, 32, 53, 53, 32, 115, 104, 105, 112, 112, 101, 100>>
        SUBJ_HELLO == <<104, 101, 108, 108, 111>>
        ADDR_INTERNAL == <<100, 97, 110, 97, 64, 103, 97, 121, 97, 45, 102, 111, 111, 100, 115, 46, 99, 111, 109>>
        ADDR_EXTERNAL == <<115, 97, 108, 101, 115, 64, 118, 101, 110, 100, 111, 114, 46, 101, 120, 97, 109, 112, 108, 101>>
        NAME_SHORT == <<68, 97, 110, 97, 32, 76, 101, 118, 105>>
        NAME_LONG == <<65, 99, 99, 111, 117, 110, 116, 115, 32, 82, 101, 99, 101, 105, 118, 97, 98, 108, 101, 32, 68, 101, 112, 116>>
    IN
       {Email(StrVal(SUBJ_INVOICE), ADDR_EXTERNAL, NAME_LONG, "normal"),
        Email(StrVal(SUBJ_URGENT_LONG), ADDR_EXTERNAL, NAME_LONG, "normal"),
        Email(StrVal(SUBJ_PO), ADDR_INTERNAL, NAME_SHORT, "normal"),
        Email(StrVal(SUBJ_HELLO), ADDR_INTERNAL, NAME_SHORT, "normal"),
        Email(StrVal(SUBJ_HELLO), ADDR_EXTERNAL, NAME_SHORT, "high"),
        Email(NoneVal, ADDR_EXTERNAL, NAME_SHORT, "normal")}

EmailLists == SeqsUpTo(Emails, MaxEmails)

\* result["content"][0]["text"]: a text of the model's choosing, by length.
AiTexts == {[i \in 1..n |-> 97] : n \in {1, 450, MaxSummaryLen}}

\* Module configuration, lines 15-21: every value is read with
\* os.environ[...], so an absent variable raises KeyError while the module
\* is imported, before main is called.
EMStartup ==
    /\ em_pc = "startup"
    /\ IF em_env
       THEN em_pc' = "get_ms365_token" /\ UNCHANGED em_raised_in
       ELSE em_pc' = "raised" /\ em_raised_in' = "module configuration"
    /\ UNCHANGED <<em_emails, em_summary, em_sent, em_env, em_ai, em_calls>>
    /\ UNCHANGED emRest

\* get_ms365_token: raise_for_status and the subscript are unguarded.
EMGetToken ==
    /\ em_pc = "get_ms365_token"
    /\ \E ok \in BOOLEAN :
         IF ok THEN em_pc' = "fetch_emails" /\ UNCHANGED em_raised_in
         ELSE em_pc' = "raised" /\ em_raised_in' = "get_ms365_token"
    /\ em_calls' = Append(em_calls, Call("get_ms365_token", <<>>, ""))
    /\ UNCHANGED <<em_emails, em_summary, em_sent, em_env, em_ai>>
    /\ UNCHANGED emRest

\* fetch_emails: the 'value' list of the body, or the exception of the
\* request, of raise_for_status or of response.json().
EMFetchEmails ==
    /\ em_pc = "fetch_emails"
    /\ \/ \E emails \in EmailLists :
            /\ em_emails' = emails
            /\ em_pc' = IF emails = <<>> THEN "send_empty" ELSE "summarize"
            /\ UNCHANGED em_raised_in
       \/ /\ em_pc' = "raised"
          /\ em_raised_in' = "fetch_emails"
          /\ UNCHANGED em_emails
    /\ em_calls' = Append(em_calls, Call("fetch_emails", <<>>, ""))
    /\ UNCHANGED <<em_summary, em_sent, em_env, em_ai>>
    /\ UNCHANGED emRest

\* send_whatsapp(message): raise_for_status is unguarded.
EMSendOutcome(message, ok) ==
    IF ok
    THEN em_sent' = Append(em_sent, message) /\ em_pc' = "end"
           /\ UNCHANGED em_raised_in
    ELSE em_pc' = "raised" /\ em_raised_in' = "send_whatsapp"
           /\ UNCHANGED em_sent

\* main lines 221-226: the empty-inbox message.
EMSendEmpty ==
    /\ em_pc = "send_empty"
    /\ em_summary' = FB.greeting \o FB.today \o FB.no_emails
    /\ \E ok \in BOOLEAN : EMSendOutcome(em_summary', ok)
    /\ em_calls' = Append(em_calls, Call("send_whatsapp", em_summary', ""))
    /\ UNCHANGED <<em_emails, em_env, em_ai>>
    /\ UNCHANGED emRest

\* A variant of main without the try/except around summarize_with_claude.
AfterSummarizeUnguarded(ai_ok) == IF ai_ok THEN "send_whatsapp" ELSE "raised"

\* main lines 235-247: whether summarize_with_claude returned or raised,
\* main goes on to send_whatsapp.
AfterSummarize(ai_ok) == "send_whatsapp"

\* main lines 230-241: categorize_emails, then summarize_with_claude with
\* create_fallback_summary on any exception (request error,
\* raise_for_status, a body without content[0].text).
EMSummarize ==
    /\ em_pc = "summarize"
    /\ LET categories == categorize_emails(em_emails)
       IN IF categories.raised
          THEN /\ em_pc' = "raised"
               /\ em_raised_in' = "categorize_emails"
               /\ em_calls' = Append(em_calls, Call("categorize_emails", <<>>, ""))
               /\ UNCHANGED <<em_summary, em_ai>>
          ELSE /\ \/ \E text \in AiTexts :
                       /\ em_summary' = text
                       /\ em_ai' = <<[ok |-> TRUE, text |-> text]>>
                       /\ em_pc' = AfterSummarize(TRUE)
                       /\ em_calls' = em_calls \o
                            <<Call("categorize_emails", <<>>, ""),
                              Call("summarize_with_claude", <<>>, "")>>
                  \/ /\ em_summary' = create_fallback_summary(em_emails, categories)
                     /\ em_ai' = <<[ok |-> FALSE, text |-> <<>>]>>
                     /\ em_pc' = AfterSummarize(FALSE)
                     /\ em_calls' = em_calls \o
                          <<Call("categorize_emails", <<>>, ""),
                            Call("summarize_with_claude", <<>>, ""),
                            Call("create_fallback_summary", <<>>, "")>>
               /\ UNCHANGED em_raised_in
    /\ UNCHANGED <<em_emails, em_sent, em_env>>
    /\ UNCHANGED emRest

\* main line 247
EMSend ==
    /\ em_pc = "send_whatsapp"
    /\ \E ok \in BOOLEAN : EMSendOutcome(em_summary, ok)
    /\ em_calls' = Append(em_calls, Call("send_whatsapp", em_summary, ""))
    /\ UNCHANGED <<em_emails, em_summary, em_env, em_ai>>
    /\ UNCHANGED emRest

InitDigest ==
    /\ em_pc = "startup"
    /\ em_env \in BOOLEAN
    /\ em_ai = <<>>
    /\ em_calls = <<>>
    /\ em_emails = <<>>
    /\ em_summary = <<>>
    /\ em_raised_in = ""
    /\ em_sent = <<>>
    /\ OthersIdleEM

NextDigest ==
    \/ EMStartup
    \/ EMGetToken
    \/ EMFetchEmails
    \/ EMSendEmpty
    \/ EMSummarize
    \/ EMSend

SpecDigest == InitDigest /\ [][NextDigest]_vars

(***************************************************************************)
(* A run of any one of the four scripts.                                   *)
(***************************************************************************)
InitAnyScript ==
    \/ InitContainers
    \/ InitDailyReport
    \/ InitDeliveries
    \/ InitDigest

NextAnyScript ==
    \/ NextContainers
    \/ NextDailyReport
    \/ NextDeliveries
    \/ NextDigest

SpecAnyScript == InitAnyScript /\ [][NextAnyScript]_vars

(***************************************************************************)
(* Claims about priority_query (checked under SpecPriorityQuery).          *)
(***************************************************************************)
AllTransient(log) == \A i \in 1..Len(log) : IsTransient(log[i])

IsJson200(o) == o.kind = "http" /\ o.status = 200 /\ o.body \in {"value", "novalue"}

\* C1: transient failures (502/503/504 or a timeout) on the first k < retries
\* attempts do not end the call, and when attempt k+1 is then answered with
\* HTTP 200 the call returns the 'value' list of that response through the
\* success return (line 125), not a failure return.
C1_RetryThenSuccess ==
    /\ (pq_pc # "idle" /\ AllTransient(pq_log) /\ Len(pq_log) < pq_retries)
          => pq_pc = "loop"
    /\ (pq_log # <<>> /\ AllTransient(SubSeq(pq_log, 1, Len(pq_log) - 1))
          /\ IsJson200(pq_log[Len(pq_log)]))
          => /\ pq_pc = "returned"
             /\ pq_line = 125
             /\ pq_result = pq_log[Len(pq_log)].value

\* C1 witness: 503, 503, 200 with a non-empty payload, payload returned.
C1_Witness ==
    /\ pq_pc = "returned"
    /\ Len(pq_log) = 3
    /\ pq_log[1].status = 503
    /\ pq_log[2].status = 503
    /\ IsJson200(pq_log[3])
    /\ pq_log[3].value # <<>>
    /\ pq_result = pq_log[3].value

\* C4: a call issues at most `retries` requests and always returns; when
\* every attempt ends in 502/503/504 or a timeout it returns the empty list
\* after exactly `retries` requests.
C4_BoundedAttempts ==
    /\ Len(pq_log) <= pq_retries
    /\ pq_attempt = Len(pq_log)
    /\ (pq_pc = "loop" => ENABLED (PQRequest \/ PQGiveUp))
    /\ (pq_pc = "returned" /\ AllTransient(pq_log))
          => /\ Len(pq_log) = pq_retries
             /\ pq_result = <<>>
             /\ pq_line = 142

\* C4 witness: three transient failures of a call with retries = 3.
C4_Witness ==
    /\ pq_pc = "returned"
    /\ pq_retries = 3
    /\ Len(pq_log) = 3
    /\ AllTransient(pq_log)
    /\ pq_result = <<>>

(***************************************************************************)
(* Claims about the recipient loop (checked under SpecContainers).         *)
(***************************************************************************)
SendsTo(phone) == SelectSeq(sc_sendlog, LAMBDA e : e.phone = phone)

PositionOf(phone) == CHOOSE i \in 1..Len(RECIPIENTS) : RECIPIENTS[i] = phone

\* C2: every recipient gets its own send attempts, in list order, whatever
\* the earlier recipients' outcome; each gets its own True/False result
\* (True iff one of its requests was answered 200); main then reaches its end.
C2_AllRecipientsAttempted ==
    /\ \A i \in 1..Len(sc_sendlog) - 1 :
         PositionOf(sc_sendlog[i].phone) <= PositionOf(sc_sendlog[i + 1].phone)
    /\ \A i \in 1..Len(sc_outcomes) :
         /\ SendsTo(RECIPIENTS[i]) # <<>>
         /\ sc_outcomes[i] = (\E j \in 1..Len(SendsTo(RECIPIENTS[i])) :
                                 SendsTo(RECIPIENTS[i])[j].status = 200)
    /\ (sc_pc = "send" => /\ Len(sc_outcomes) = sc_r - 1
                          /\ ENABLED (SCSendAttempt \/ SCSendGiveUp \/ SCFinish))
    /\ (sc_pc = "end" => Len(sc_outcomes) = Len(RECIPIENTS))

\* C2 witness: the first recipient failed, the second succeeded, main ended.
C2_Witness ==
    /\ sc_pc = "end"
    /\ Len(sc_outcomes) = Len(RECIPIENTS)
    /\ sc_outcomes[1] = FALSE
    /\ sc_outcomes[2] = TRUE
    /\ SendsTo(RECIPIENTS[3]) # <<>>

(***************************************************************************)
(* Claims about parse_delivery_item (checked under SpecParse).             *)
(***************************************************************************)
\* A text that denotes a number: an optionally signed decimal numeral,
\* possibly surrounded by whitespace.
IsNumeral(text) ==
    LET t == RStrip(LStrip(text))
        body == IF t # <<>> /\ t[1] \in {43, 45} THEN Tail(t) ELSE t
    IN /\ \E i \in 1..Len(body) : IsDigit(body[i])
       /\ \A i \in 1..Len(body) : IsDigit(body[i]) \/ body[i] = 46
       /\ Cardinality({i \in 1..Len(body) : body[i] = 46}) <= 1

\* C5: an item whose pallets column is absent, has a null or empty text, or
\* has a text that is not a number, gets pallets = 0.
C5_PalletsDefaultZero ==
    (pd_pc = "returned"
       /\ (pd_item.pallets.t # "str" \/ ~IsNumeral(pd_item.pallets.s)))
    => pd_row.pallets = Fin(0)

IdxIsKey(idx) == idx.t = "int" /\ idx.n \in DRIVER_LABEL_KEYS

RawDriverText == IF Truthy(pd_item.driver.text) THEN pd_item.driver.text.s ELSE <<>>

IsDriverIndexLabel(label) == Len(label) > Len(DRIVER_PREFIX) /\ Prefix(label, Len(DRIVER_PREFIX)) = DRIVER_PREFIX

\* C7 as stated: the label is never empty; an index that is not a key of
\* DRIVER_LABELS gives the raw text if non-empty, otherwise the
\* driver-index label; no index gives the raw text if non-empty, otherwise
\* the unassigned label.
C7_DriverFallback_Original ==
    pd_pc = "returned" =>
      /\ pd_row.driver # <<>>
      /\ (pd_item.driver.value.t = "index" /\ ~IdxIsKey(pd_item.driver.value.idx))
           => IF RawDriverText # <<>> THEN pd_row.driver = RawDriverText
              ELSE IsDriverIndexLabel(pd_row.driver)
      /\ pd_item.driver.value.t # "index"
           => pd_row.driver = (IF RawDriverText # <<>> THEN RawDriverText ELSE UNASSIGNED)

\* C7 (amended): as above, but the driver-index label is used only for an
\* index that is hashable (a number, a string or null); an index that is a
\* JSON array or object is handled like a missing index: raw text if
\* non-empty, otherwise the unassigned label.
C7_DriverFallback ==
    pd_pc = "returned" =>
      /\ pd_row.driver # <<>>
      /\ (pd_item.driver.value.t = "index" /\ ~IdxIsKey(pd_item.driver.value.idx)
            /\ pd_item.driver.value.idx.t # "unhashable")
           => IF RawDriverText # <<>> THEN pd_row.driver = RawDriverText
              ELSE /\ IsDriverIndexLabel(pd_row.driver)
                   /\ pd_row.driver = DRIVER_PREFIX \o IdxFormat(pd_item.driver.value.idx)
      /\ (pd_item.driver.value.t # "index" \/ pd_item.driver.value.idx.t = "unhashable")
           => pd_row.driver = (IF RawDriverText # <<>> THEN RawDriverText ELSE UNASSIGNED)
      /\ (pd_item.driver.value.t = "index" /\ IdxIsKey(pd_item.driver.value.idx))
           => pd_row.driver = DRIVER_LABELS(pd_item.driver.value.idx.n)

\* C7 witness: index 5 (no entry in DRIVER_LABELS) with an empty text was
\* parsed and labelled "נהג 5".
C7_Witness ==
    /\ pd_pc = "returned"
    /\ pd_item.driver.value = DriverValue("index", IdxInt(5))
    /\ ~Truthy(pd_item.driver.text)
    /\ pd_row.driver = <<1504, 1492, 1490, 32, 53>>

(***************************************************************************)
(* Claims about daily_report.py (checked under SpecDailyReport).           *)
(***************************************************************************)
\* The quantity a sub-line contributes when missing, null or non-numeric
\* values count as zero.
RECURSIVE QtyWithZeroDefault(_)
QtyWithZeroDefault(lines) ==
    IF lines = <<>> THEN 0
    ELSE (IF Head(lines).t = "num" THEN Head(lines).v ELSE 0)
         + QtyWithZeroDefault(Tail(lines))

\* C6: process_documents never raises and yields one row per document whose
\* QTY, PALLETS and QPRICE are numbers: a sub-line with an absent, null or
\* non-numeric TQUANT contributes 0 to QTY, an absent or null QPRICE gives
\* QPRICE 0, and the sums of create_excel and main are defined.  (Stated for
\* documents whose CURDATE is a string and whose sub-form is not null, so
\* that only the quantity and price fields are in question.)
C6_NumericDefaults ==
    /\ (\A i \in 1..Len(dr_raw_docs) :
          /\ dr_raw_docs[i].CURDATE.t = "str"
          /\ dr_raw_docs[i].TRANSORDER_D_SUBFORM.t # "none")
         => dr_raised_in \notin {"process_documents", "main"}
    /\ dr_pc \in {"create_excel", "upload_to_timelineai", "send_whatsapp", "cleanup", "end"}
         => /\ Len(dr_documents) = Len(dr_raw_docs)
            /\ \A i \in 1..Len(dr_documents) :
                 /\ dr_documents[i].QPRICE.t = "num"
                 /\ dr_raw_docs[i].QPRICE.t \in {"absent", "none"}
                      => dr_documents[i].QPRICE = Num(0)
                 /\ dr_documents[i].QTY =
                      QtyWithZeroDefault(dr_raw_docs[i].TRANSORDER_D_SUBFORM.lines)

(***************************************************************************)
(* Claims about the source-client fetches (checked under SpecDailyReport). *)
(***************************************************************************)
\* C3: every fetch (query_priority, fetch_emails, query_monday_deliveries,
\* priority_query) answers a failed request with an empty sequence and never
\* lets the failure reach its caller as an exception: no run of a script
\* ends with an exception raised in its fetch, and a priority_query whose
\* last request failed returns [].
C3_FetchReturnsEmptyOnFailure ==
    /\ dr_raised_in # "query_priority"
    /\ em_raised_in # "fetch_emails"
    /\ dd_raised_in \notin {"query_monday_deliveries", "query_monday_deliveries_fallback"}
    /\ (pq_pc = "returned" /\ pq_log # <<>> /\ ~IsJson200(pq_log[Len(pq_log)]))
         => pq_result = <<>>

(***************************************************************************)
(* Claims about grouping and the digest (checked under SpecDeliveries).    *)
(***************************************************************************)
\* The bag of the elements of a sequence.
BagOfSeq(s) ==
    [x \in {s[i] : i \in DOMAIN s} |-> Cardinality({i \in DOMAIN s : s[i] = x})]

\* The bag of the members of all groups of a dict {key: [items]}.
RECURSIVE BagOfGroups(_)
BagOfGroups(grouped) ==
    IF grouped = <<>> THEN EmptyBag
    ELSE BagOfSeq(Head(grouped).items) (+) BagOfGroups(Tail(grouped))

\* The dict {driver: [items]} obtained from {driver: {customer: [items]}} by
\* joining the customers' lists.
RECURSIVE JoinGroups(_)
JoinGroups(customers) ==
    IF customers = <<>> THEN <<>>
    ELSE Head(customers).items \o JoinGroups(Tail(customers))

DistinctKeys(grouped) ==
    \A i, j \in DOMAIN grouped : grouped[i].key = grouped[j].key => i = j

\* format_whatsapp_message has returned or raised with a non-empty list.
Grouped == dd_deliveries # <<>> /\ dd_pc \notin {"idle", "query_monday_deliveries",
                  "query_monday_deliveries_fallback", "format_whatsapp_message"}

\* create_excel_report has returned or raised.
Grouped2 ==
    \/ dd_pc \in {"upload_to_timelines", "send_file"}
    \/ dd_pc = "end" /\ dd_deliveries # <<>>
    \/ dd_raised_in = "create_excel_report"

\* C8: group_by_driver and group_by_driver_and_customer partition their
\* input: the members of the groups are, with multiplicity, the input rows;
\* the keys are distinct and every member sits under its own driver (and
\* customer), so a row is in exactly one group; no group is empty.
C8_GroupingIsPartition ==
    /\ Grouped =>
         /\ BagOfGroups(dd_grouped) = BagOfSeq(dd_deliveries)
         /\ DistinctKeys(dd_grouped)
         /\ \A i \in DOMAIN dd_grouped :
              /\ dd_grouped[i].items # <<>>
              /\ \A j \in DOMAIN dd_grouped[i].items :
                   dd_grouped[i].items[j].driver = dd_grouped[i].key
    /\ Grouped2 =>
         /\ BagOfGroups([i \in DOMAIN dd_grouped2 |->
                           [key |-> dd_grouped2[i].key,
                            items |-> JoinGroups(dd_grouped2[i].items)]])
              = BagOfSeq(dd_deliveries)
         /\ DistinctKeys(dd_grouped2)
         /\ \A i \in DOMAIN dd_grouped2 :
              /\ dd_grouped2[i].items # <<>>
              /\ DistinctKeys(dd_grouped2[i].items)
              /\ \A c \in DOMAIN dd_grouped2[i].items :
                   /\ dd_grouped2[i].items[c].items # <<>>
                   /\ \A j \in DOMAIN dd_grouped2[i].items[c].items :
                        /\ dd_grouped2[i].items[c].items[j].driver = dd_grouped2[i].key
                        /\ dd_grouped2[i].items[c].items[j].customer
                             = dd_grouped2[i].items[c].key

\* C8 witness: three rows fell into two driver groups, one of them with two
\* members under two customers, and both groupings were computed.
C8_Witness ==
    /\ dd_pc = "end"
    /\ Len(dd_deliveries) = 3
    /\ Len(dd_grouped) = 2
    /\ \E i \in DOMAIN dd_grouped : Len(dd_grouped[i].items) = 2
    /\ Len(dd_grouped2) = 2
    /\ \E i \in DOMAIN dd_grouped2 : Len(dd_grouped2[i].items) = 2

\* The rows of deliveries whose driver is the given one.
OfDriver(deliveries, driver) == SelectSeq(deliveries, LAMBDA d : d.driver = driver)

RECURSIVE SumShown(_)
SumShown(groups) ==
    IF groups = <<>> THEN 0 ELSE Head(groups).pallets_shown + SumShown(Tail(groups))

RECURSIVE SumCells(_)
SumCells(drivers) ==
    IF drivers = <<>> THEN 0 ELSE Head(drivers).subtotal.n + SumCells(Tail(drivers))

\* C9: in the message and in the summary sheet, every driver's subtotal is
\* the sum of the pallets of its rows and its count the number of its rows,
\* and the grand totals are the sums of the subtotals and the sums over all
\* input rows.  (A subtotal that is not printed counts as 0.)
C9_SubtotalsAreSums ==
    /\ dd_pc \in {"send_text", "create_excel_report", "upload_to_timelines",
                  "send_file", "end"}
         => LET m == format_whatsapp_message(dd_deliveries)
            IN /\ \A i \in DOMAIN m.groups :
                    /\ Fin(10 * m.groups[i].pallets_shown)
                         = SumPallets(OfDriver(dd_deliveries, m.groups[i].driver))
                    /\ m.groups[i].driver_rows
                         = Len(OfDriver(dd_deliveries, m.groups[i].driver))
               /\ m.total_rows = Len(dd_deliveries)
               /\ m.total_rows = TotalRows(m.groups)
               /\ Fin(10 * m.total_shown) = SumPallets(dd_deliveries)
               /\ m.total_shown = SumShown(m.groups)
    /\ dd_summary # <<>>
         => /\ \A i \in DOMAIN dd_summary.drivers :
                 Fin(10 * dd_summary.drivers[i].subtotal.n)
                   = SumPallets(OfDriver(dd_deliveries, dd_summary.drivers[i].driver))
            /\ Fin(10 * dd_summary.grand.n) = SumPallets(dd_deliveries)
            /\ dd_summary.grand.n = SumCells(dd_summary.drivers)

\* The documented cap of the text digest.
DIGEST_CAP == 500

\* C10: a text handed to the messaging relay never exceeds 500 characters:
\* the message of the deliveries report and the summary of the email digest.
C10_DigestWithinCap ==
    /\ dd_pc \in {"send_text", "create_excel_report", "upload_to_timelines",
                  "send_file", "end"}
         => Len(dd_message) <= DIGEST_CAP
    /\ \A i \in DOMAIN dd_sent : Len(dd_sent[i].text) <= DIGEST_CAP
    /\ em_pc = "send_whatsapp" => Len(em_summary) <= DIGEST_CAP
    /\ \A i \in DOMAIN em_sent : Len(em_sent[i]) <= DIGEST_CAP

(***************************************************************************)
(* Claims about the control flow of the scripts.                           *)
(***************************************************************************)
\* The ways query_monday_deliveries fails, and the ways it succeeds.
FailedFetch == {"no_token", "exception", "fallback_exception"}
SucceededFetch == {"items", "fallback_items"}

\* The calls main made after the fetch returned.
PostFetch(calls) ==
    SelectSeq(calls, LAMBDA c : c.fn \notin {"query_monday_deliveries",
                                             "query_monday_deliveries_fallback"})

\* What a run with no deliveries does after the fetch: it formats the
\* message and sends the one text.
NoDataText == format_whatsapp_message(<<>>).text
NoDataCalls == <<Call("format_whatsapp_message", <<>>, ""),
                 Call("send_whatsapp_message", NoDataText, "")>>

\* C11: in daily_deliveries_report a failed fetch (missing token, exception,
\* failed fallback) returns the empty list, and from then on the run makes
\* the same calls and sends the same messages as a run whose fetch succeeded
\* with zero records: the no-deliveries text is formatted and sent, and
\* nothing else.
C11_FailedFetchLikeEmpty ==
    /\ dd_fetch \in FailedFetch => dd_deliveries = <<>>
    /\ (dd_fetch \in FailedFetch \cup SucceededFetch /\ dd_deliveries = <<>>)
         => /\ PostFetch(dd_calls) = Prefix(NoDataCalls, Len(PostFetch(dd_calls)))
            /\ dd_pc \notin {"create_excel_report", "upload_to_timelines",
                             "send_file", "raised"}
            /\ dd_pc = "end" => PostFetch(dd_calls) = NoDataCalls
            /\ \A i \in DOMAIN dd_sent :
                 dd_sent[i] = [text |-> NoDataText, file_uid |-> ""]
            /\ Len(dd_sent) <= 1

C11_Witness ==
    /\ dd_pc = "end"
    /\ dd_fetch = "fallback_exception"
    /\ dd_sent = <<[text |-> NoDataText, file_uid |-> ""]>>

\* The calls of a log whose function is one of fns.
CallsOf(calls, fns) == SelectSeq(calls, LAMBDA c : c.fn \in fns)

\* The empty-inbox message of email_digest (main, line 223).
NoEmailsText == FB.greeting \o FB.today \o FB.no_emails

\* C12: when the fetch yields zero records, daily_deliveries_report and
\* email_digest each make exactly one send, of the no-data text and without
\* a file; no workbook is created or uploaded, and email_digest calls
\* neither categorize_emails nor the summarizer (nor the fallback).
C12_ZeroRecordsOneText ==
    /\ (dd_pc = "end" /\ dd_fetch # "" /\ dd_deliveries = <<>>)
         => /\ CallsOf(dd_calls, {"send_whatsapp_message"})
                 = <<Call("send_whatsapp_message", NoDataText, "")>>
            /\ CallsOf(dd_calls, {"create_excel_report", "upload_to_timelines"}) = <<>>
            /\ dd_summary = <<>>
            /\ dd_file_uid = ""
    /\ (em_pc \in {"end", "raised"} /\ em_emails = <<>>
          /\ em_raised_in \notin {"module configuration", "get_ms365_token",
                                  "fetch_emails"})
         => /\ CallsOf(em_calls, {"send_whatsapp"})
                 = <<Call("send_whatsapp", NoEmailsText, "")>>
            /\ CallsOf(em_calls, {"categorize_emails", "summarize_with_claude",
                                  "create_fallback_summary"}) = <<>>
            /\ em_ai = <<>>
            /\ em_pc = "end" => em_sent = <<NoEmailsText>>

C12_Witness ==
    /\ em_pc = "end"
    /\ em_emails = <<>>
    /\ em_sent = <<NoEmailsText>>
    /\ Len(em_calls) = 3

C14_DeliveryFailureAbsorbed ==
    /\ dr_raised_in \notin {"upload_to_timelineai", "send_whatsapp"}
    /\ em_raised_in # "send_whatsapp"
    /\ dd_raised_in \notin {"upload_to_timelines", "send_whatsapp_message"}
    /\ (sc_pc = "raised" => CallsOf(sc_calls, {"upload_file", "send_whatsapp"}) = <<>>)

\* C15: in every script, when a required configuration value is absent the
\* process stops at startup: no HTTP request is issued, no message is sent
\* and main does not run to its end.
C15_MissingConfigStopsAtStartup ==
    /\ ~dd_token
         => /\ CallsOf(dd_calls, {"query_monday_deliveries_fallback",
                                  "upload_to_timelines",
                                  "send_whatsapp_message"}) = <<>>
            /\ dd_sent = <<>>
            /\ dd_pc # "end"
    /\ ~dr_env => dr_calls = <<>> /\ dr_sent = <<>>
    /\ ~em_env => em_calls = <<>> /\ em_sent = <<>>

\* The stage of the pipeline a call belongs to: 1 fetch, 2 normalize,
\* 3 group, 4 render, 5 deliver, 6 cleanup.
StageOf(fn) ==
    CASE fn \in {"fetch_usd_rate", "fetch_containers_from_priority",
                 "fetch_items_from_priority", "query_priority",
                 "query_monday_deliveries", "query_monday_deliveries_fallback",
                 "get_ms365_token", "fetch_emails"} -> 1
      [] fn \in {"process_documents", "categorize_emails"} -> 2
      [] fn \in {"create_summary_sheet", "wb.save", "create_excel",
                 "create_excel_report", "format_whatsapp_message",
                 "summarize_with_claude", "create_fallback_summary"} -> 4
      [] fn \in {"upload_file", "upload_to_timelineai", "upload_to_timelines",
                 "send_whatsapp", "send_whatsapp_message"} -> 5
      [] fn = "os.remove" -> 6

\* C16: in every run the calls occur in the order fetch, normalize, group,
\* render, deliver, cleanup: no call of an earlier stage follows a call of a
\* later one; in particular no source-system fetch follows the start of
\* rendering.
C16_StagesInOrder ==
    \A calls \in {sc_calls, dr_calls, dd_calls, em_calls} :
      \A i, j \in DOMAIN calls :
        i < j => StageOf(calls[i].fn) <= StageOf(calls[j].fn)

\* The requests of the send log of send_containers_report that the relay
\* accepted for a phone.
Accepted(phone) ==
    SelectSeq(sc_sendlog, LAMBDA e : e.phone = phone /\ e.status = 200)

\* The accepted messages of daily_deliveries_report with a text, and those
\* with a file reference.
TextMessages == SelectSeq(dd_sent, LAMBDA e : e.text # <<>>)
FileMessages == SelectSeq(dd_sent, LAMBDA e : e.file_uid # "")

\* C17 as stated: over a run of any of the four scripts, the relay accepts
\* at most one message for a given phone number.
C17_AtMostOnePerPhone_Original ==
    /\ Len(dd_sent) <= 1
    /\ Len(dr_sent) <= 1
    /\ Len(em_sent) <= 1
    /\ \A r \in DOMAIN RECIPIENTS : Len(Accepted(RECIPIENTS[r])) <= 1

\* C17, amended: over a run the relay accepts for a given phone number at
\* most one message set: at most one text message and at most one file
\* message in daily_deliveries_report (the text first, then the file), and
\* at most one message in each of the other three scripts.
C17_AtMostOneMessageSet ==
    /\ Len(TextMessages) <= 1
    /\ Len(FileMessages) <= 1
    /\ \A i \in DOMAIN dd_sent : (dd_sent[i].text # <<>>) # (dd_sent[i].file_uid # "")
    /\ \A i, j \in DOMAIN dd_sent :
         (dd_sent[i].file_uid # "" /\ dd_sent[j].text # <<>>) => j < i
    /\ Len(dr_sent) <= 1
    /\ Len(em_sent) <= 1
    /\ \A r \in DOMAIN RECIPIENTS : Len(Accepted(RECIPIENTS[r])) <= 1

C17_Witness ==
    /\ dd_pc = "end"
    /\ Len(dd_sent) = 2
    /\ dd_sent[1].text = dd_message
    /\ dd_sent[2].file_uid = dd_file_uid

\* In a call log, every send made after an upload, or carrying a file
\* reference, follows an upload and carries the reference uid, which is not
\* empty.
FileSendsFollowUpload(calls, uploads, sends, uid) ==
    \A j \in DOMAIN calls :
      (calls[j].fn \in sends
         /\ (calls[j].file_uid # "" \/ \E i \in 1..(j - 1) : calls[i].fn \in uploads))
        => /\ \E i \in 1..(j - 1) : calls[i].fn \in uploads
           /\ uid # ""
           /\ calls[j].file_uid = uid

\* C18: a message with a file reference is sent only after an upload of the
\* same run succeeded and carries exactly the reference that upload
\* returned; when the upload fails (upload_file returns None,
\* upload_to_timelines returns "", upload_to_timelineai raises) no message
\* with a file reference is sent, and none is accepted.
C18_FileMessageAfterUpload ==
    /\ FileSendsFollowUpload(sc_calls, {"upload_file"}, {"send_whatsapp"}, sc_file_uid)
    /\ FileSendsFollowUpload(dd_calls, {"upload_to_timelines"},
                             {"send_whatsapp_message"}, dd_file_uid)
    /\ FileSendsFollowUpload(dr_calls, {"upload_to_timelineai"}, {"send_whatsapp"},
                             dr_file_uid)
    /\ sc_file_uid = "" => sc_sendlog = <<>>
    /\ sc_pc = "return_1030" => CallsOf(sc_calls, {"send_whatsapp"}) = <<>>
    /\ \A i \in DOMAIN dd_sent : dd_sent[i].file_uid \in {"", dd_file_uid}
    /\ dd_file_uid = "" => FileMessages = <<>>
    /\ \A i \in DOMAIN dr_sent : dr_sent[i].file_uid = dr_file_uid /\ dr_file_uid # ""
    /\ dr_raised_in = "upload_to_timelineai"
         => CallsOf(dr_calls, {"send_whatsapp"}) = <<>> /\ dr_sent = <<>>

C18_Witness ==
    /\ sc_pc = "end"
    /\ sc_file_uid # ""
    /\ \E j \in DOMAIN sc_calls :
         sc_calls[j].fn = "send_whatsapp" /\ sc_calls[j].file_uid = sc_file_uid
    /\ \E i \in DOMAIN sc_sendlog : sc_sendlog[i].status = 200

KeysOf(grouped) == [i \in DOMAIN grouped |-> grouped[i].key]

\* The keys are in strictly ascending lexicographic order.
Ascending(keys) == \A i, j \in DOMAIN keys : i < j => StrLess(keys[i], keys[j])

\* The rearrangements of a list.
Rearrangements(s) ==
    LET n == Len(s)
        perms == {p \in [1..n -> 1..n] : \A i, j \in 1..n : p[i] = p[j] => i = j}
    IN {[i \in 1..n |-> s[p[i]]] : p \in perms}

\* The rows of a customer of a driver, in input order.
OfDriverCustomer(deliveries, driver, customer) ==
    SelectSeq(deliveries, LAMBDA d : d.driver = driver /\ d.customer = customer)

\* C20: group_by_driver returns its groups in ascending lexicographic order
\* of the driver key, the same key order for every permutation of the
\* input, and the rows of a group keep their input order;
\* group_by_driver_and_customer orders the drivers and, within each driver,
\* the customers in the same way.  Stated where each grouping has just been
\* computed; main does not assign the result again.
C20_GroupsInKeyOrder ==
    /\ dd_pc = "send_text" \/ dd_raised_in = "format_whatsapp_message"
         => /\ dd_grouped = group_by_driver(dd_deliveries)
            /\ Ascending(KeysOf(dd_grouped))
            /\ \A i \in DOMAIN dd_grouped :
                 dd_grouped[i].items = OfDriver(dd_deliveries, dd_grouped[i].key)
            /\ Len(dd_deliveries) <= MaxItems
                 => \A p \in Rearrangements(dd_deliveries) :
                      KeysOf(group_by_driver(p)) = KeysOf(dd_grouped)
    /\ dd_pc = "upload_to_timelines" \/ dd_raised_in = "create_excel_report"
         => /\ dd_grouped2 = group_by_driver_and_customer(dd_deliveries)
            /\ Ascending(KeysOf(dd_grouped2))
            /\ \A i \in DOMAIN dd_grouped2 :
                 /\ Ascending(KeysOf(dd_grouped2[i].items))
                 /\ \A k \in DOMAIN dd_grouped2[i].items :
                      dd_grouped2[i].items[k].items
                        = OfDriverCustomer(dd_deliveries, dd_grouped2[i].key,
                                           dd_grouped2[i].items[k].key)

C20_Witness ==
    /\ dd_grouped2 # <<>>
    /\ Len(dd_deliveries) = 3
    /\ Len(dd_grouped) = 2
    /\ KeysOf(GroupLoop(dd_deliveries)) # KeysOf(dd_grouped)
    /\ \E i \in DOMAIN dd_grouped : Len(dd_grouped[i].items) = 2
    /\ \E i \in DOMAIN dd_grouped2 :
         LET unsorted == GroupLoop2(dd_deliveries) IN
           \E k \in DOMAIN unsorted :
             /\ unsorted[k].key = dd_grouped2[i].key
             /\ KeysOf(unsorted[k].items) # KeysOf(dd_grouped2[i].items)

(***************************************************************************)
(* Claims about the rendered digest, the retries and the remaining         *)
(* invariants.                                                             *)
(***************************************************************************)
\* The distinct non-empty customers of a group, as a set.
CustomerSet(items) == {items[i].customer : i \in DOMAIN items} \ {<<>>}

\* The index of the first row of a customer.
FirstRow(items, c) ==
    CHOOSE i \in DOMAIN items :
      /\ items[i].customer = c
      /\ \A k \in 1..(i - 1) : items[k].customer # c

\* The lines of a text ("\n".split), from the positions of its newlines.
LinesOf(text) ==
    LET nl == {i \in DOMAIN text : text[i] = 10}
        starts == {1} \cup {i + 1 : i \in nl}
        EndOf(b) == IF \E i \in nl : i >= b
                    THEN (CHOOSE i \in nl : i >= b /\ \A k \in nl : k >= b => i <= k) - 1
                    ELSE Len(text)
        Rank(b) == Cardinality({x \in starts : x <= b})
    IN [r \in 1..Cardinality(starts) |->
          LET b == CHOOSE x \in starts : Rank(x) = r
          IN SubSeq(text, b, EndOf(b))]

\* s starts with p
StartsWith(s, p) == Len(s) >= Len(p) /\ SubSeq(s, 1, Len(p)) = p

\* The block of a driver lists min(d, 5) customers, the first distinct ones
\* in row order and each once, then the elision line iff d > 5, with d - 5.
BlockListsFirstFive(block, items) ==
    LET d == Cardinality(CustomerSet(items))
        shown == IF d < 5 THEN d ELSE 5
        lines == block.lines
        listed == SubSeq(lines, 2, 1 + shown)
        rest == SubSeq(lines, 2 + shown, Len(lines))
    IN /\ block.customers = d
       /\ Len(lines) >= 2 + shown
       /\ \A k \in 1..shown :
            \E c \in CustomerSet(items) :
              /\ StartsWith(listed[k], MSG.bullet \o c)
              /\ Cardinality({c2 \in CustomerSet(items) :
                                FirstRow(items, c2) < FirstRow(items, c)}) = k - 1
       /\ IF d > 5
          THEN rest = <<MSG.more \o NatStr(d - 5) \o MSG.customers, <<>>>>
          ELSE rest = <<<<>>>>
       /\ shown + (IF d > 5 THEN d - 5 ELSE 0) = d

\* The text ends with the separator line followed by the totals line.
EndsWithTotals(text) ==
    LET lines == LinesOf(text)
        n == Len(lines)
    IN /\ n >= 2
       /\ lines[n - 1] = MSG.separator
       /\ StartsWith(lines[n], MSG.total)

\* C21 as stated: every driver block lists min(d, 5) customers with the
\* elision line iff d > 5, and every message ends with the separator line
\* followed by the grand-totals line.
C21_FirstFiveAndTotals_Original ==
    dd_pc \in {"send_text", "create_excel_report", "upload_to_timelines",
               "send_file", "end"}
      => LET m == format_whatsapp_message(dd_deliveries)
         IN /\ \A i \in DOMAIN m.groups :
                 BlockListsFirstFive(m.groups[i], OfDriver(dd_deliveries, m.groups[i].driver))
            /\ EndsWithTotals(dd_message)

\* C21, amended: every driver block lists min(d, 5) customers with the
\* elision line iff d > 5, its count being d - 5; and when there is at
\* least one delivery the message consists of the title, the blocks, the
\* separator line and the grand-totals line, in this order.  Stated where
\* format_whatsapp_message has just returned the message.
C21_FirstFiveAndTotals ==
    dd_pc = "send_text"
      => LET m == format_whatsapp_message(dd_deliveries)
         IN /\ \A i \in DOMAIN m.groups :
                 BlockListsFirstFive(m.groups[i], OfDriver(dd_deliveries, m.groups[i].driver))
            /\ dd_deliveries # <<>>
                 => /\ EndsWithTotals(dd_message)
                    /\ Len(LinesOf(dd_message)) = 4 + Len(BlockLines(m.groups))
                    /\ SubSeq(LinesOf(dd_message), 3, 2 + Len(BlockLines(m.groups)))
                         = BlockLines(m.groups)
            /\ dd_deliveries = <<>> => dd_message = NoDataText

C21_Witness ==
    /\ dd_pc = "send_text"
    /\ Len(dd_deliveries) = 10
    /\ Len(dd_grouped) = 1
    /\ Cardinality(CustomerSet(dd_deliveries)) = 7
    /\ \E i \in DOMAIN LinesOf(dd_message) :
         LinesOf(dd_message)[i] = MSG.more \o NatStr(2) \o MSG.customers

\* The statuses of the send requests issued for a phone, in order (0 for a
\* request that raised).
StatusesFor(phone) ==
    LET reqs == SelectSeq(sc_sendlog, LAMBDA e : e.phone = phone)
    IN [i \in DOMAIN reqs |-> reqs[i].status]

\* C22: send_whatsapp of send_containers_report makes at most `retries` (2)
\* requests per recipient; a request answered with 200 is the last one for
\* that recipient and the call returns True; the call returns False exactly
\* when all `retries` requests were refused or raised, whatever the status.
C22_SendRetriesBounded ==
    /\ Len(sc_outcomes) <= Len(RECIPIENTS)
    /\ \A r \in DOMAIN RECIPIENTS :
         LET st == StatusesFor(RECIPIENTS[r])
         IN /\ Len(st) <= SendRetries
            /\ \A i \in DOMAIN st : st[i] = 200 => i = Len(st)
            /\ r <= Len(sc_outcomes)
                 => /\ sc_outcomes[r] <=> (st # <<>> /\ st[Len(st)] = 200)
                    /\ ~sc_outcomes[r]
                         <=> (Len(st) = SendRetries /\ \A i \in DOMAIN st : st[i] # 200)
            /\ (r = sc_r /\ r > Len(sc_outcomes))
                 => Len(st) = sw_attempt /\ \A i \in DOMAIN st : st[i] # 200
            /\ r > sc_r => st = <<>>

C22_Witness ==
    /\ sc_pc = "end"
    /\ sc_outcomes = <<TRUE, FALSE, TRUE>>
    /\ StatusesFor(RECIPIENTS[1]) = <<400, 200>>
    /\ StatusesFor(RECIPIENTS[2]) = <<0, 400>>
    /\ StatusesFor(RECIPIENTS[3]) = <<200>>

\* A request that failed in a way priority_query does not retry: a status
\* other than 200, 502, 503, 504, or an exception that is not a timeout
\* (among them a 200 whose body does not decode).
IsPermanent(o) ==
    \/ o.kind = "exception"
    \/ o.kind = "http" /\ o.status # 200 /\ o.status \notin TransientStatuses
    \/ o.kind = "http" /\ o.status = 200 /\ o.body = "malformed"

\* C23: priority_query issues a further request only after HTTP 502, 503,
\* 504 or a timeout: any other non-200 status and any other exception end
\* the call at once with the empty list, whatever attempts remain.
C23_RetryOnlyTransient ==
    /\ \A i \in 1..(Len(pq_log) - 1) : IsTransient(pq_log[i])
    /\ (pq_log # <<>> /\ IsPermanent(pq_log[Len(pq_log)]))
         => /\ pq_pc = "returned"
            /\ pq_result = <<>>
            /\ pq_line \in {132, 139}
            /\ ~ENABLED PQRequest

C23_Witness ==
    /\ pq_pc = "returned"
    /\ pq_retries = 3
    /\ Len(pq_log) = 2
    /\ pq_log[1].kind = "timeout"
    /\ pq_log[2].status = 404
    /\ pq_result = <<>>

\* C24: query_monday_deliveries issues at most two HTTP requests and always
\* returns; the fallback request is issued at most once, only after the
\* primary request raised a request error or was answered with GraphQL
\* "errors", and is never followed by another primary request; when both
\* fail the result is the empty list.
C24_FetchAtMostTwoRequests ==
    /\ Len(dd_requests) <= 2
    /\ \A i \in DOMAIN dd_requests :
         /\ dd_requests[i].fn = "query_monday_deliveries" => i = 1
         /\ dd_requests[i].fn = "query_monday_deliveries_fallback"
              => /\ i = 2
                 /\ dd_requests[1].fn = "query_monday_deliveries"
                 /\ dd_requests[1].outcome \in {"errors", "request_exception"}
    /\ Len(CallsOf(dd_calls, {"query_monday_deliveries"})) <= 1
    /\ Len(CallsOf(dd_calls, {"query_monday_deliveries_fallback"})) <= 1
    /\ dd_pc \in {"query_monday_deliveries", "query_monday_deliveries_fallback"}
         => ENABLED (DDQuery \/ DDFallback)
    /\ (Len(dd_requests) = 2 /\ dd_requests[2].outcome = "exception")
         => dd_deliveries = <<>> /\ dd_pc # "query_monday_deliveries_fallback"
    /\ dd_pc \notin {"query_monday_deliveries", "query_monday_deliveries_fallback"}
         => ~ENABLED (DDQuery \/ DDFallback)

C24_Witness ==
    /\ dd_pc = "end"
    /\ Len(dd_requests) = 2
    /\ dd_requests[1].outcome = "request_exception"
    /\ dd_requests[2].outcome = "exception"
    /\ dd_deliveries = <<>>

\* C25: when the fetch yields no records, daily_report and
\* send_containers_report end the run having sent nothing: main returns at
\* once, no workbook is written, no upload and no send is requested.
C25_NoRecordsNothingSent ==
    /\ (dr_pc \notin {"idle", "startup", "query_priority"} /\ dr_raised_in = ""
          /\ dr_raw_docs = <<>>)
         => /\ dr_pc = "return_261"
            /\ ~dr_file
            /\ dr_file_uid = ""
            /\ dr_sent = <<>>
            /\ CallsOf(dr_calls, {"create_excel", "upload_to_timelineai",
                                  "send_whatsapp"}) = <<>>
            /\ ~ENABLED NextDailyReport
    /\ (sc_pc \notin {"idle", "fetch_usd_rate", "fetch_containers",
                      "fetch_containers_wait", "raised"}
          /\ sc_containers = <<>>)
         => /\ sc_pc = "return_1011"
            /\ sc_file_uid = ""
            /\ sc_sendlog = <<>>
            /\ up_attempt = 0
            /\ CallsOf(sc_calls, {"create_summary_sheet", "wb.save", "upload_file",
                                  "send_whatsapp"}) = <<>>
            /\ ~ENABLED NextContainers

C25_Witness ==
    /\ sc_pc = "return_1011"
    /\ Len(sc_calls) = 2
    /\ sc_containers = <<>>
    /\ sc_sendlog = <<>>

CountOf(e, s) == Cardinality({i \in DOMAIN s : s[i] = e})

\* sub is obtained from s by deleting elements (the order of s is kept).
RECURSIVE IsSubsequence(_, _)
IsSubsequence(sub, s) ==
    IF sub = <<>> THEN TRUE
    ELSE IF s = <<>> THEN FALSE
    ELSE IF Head(sub) = Head(s) THEN IsSubsequence(Tail(sub), Tail(s))
    ELSE IsSubsequence(sub, Tail(s))

\* The rules of lines 96-103, each taken on its own.
MatchesUrgent(email) ==
    \/ email.importance = "high"
    \/ \E kw \in urgent_keywords :
          Contains(LowerStr(email.subject.s) \o <<32>> \o LowerStr(email.bodyPreview), kw)
MatchesFinance(email) ==
    \E kw \in finance_keywords :
        Contains(LowerStr(email.subject.s) \o <<32>> \o LowerStr(email.bodyPreview), kw)
MatchesOrders(email) ==
    \E kw \in order_keywords :
        Contains(LowerStr(email.subject.s) \o <<32>> \o LowerStr(email.bodyPreview), kw)

\* The five lists partition the input in input order, and an email that
\* matches the urgent rule is in the urgent list and in no other.
PartitionsWithPrecedence(emails, c) ==
    LET lists == <<c.urgent, c.finance, c.orders, c.internal, c.other>>
    IN /\ \A k \in 1..5 : IsSubsequence(lists[k], emails)
       /\ Len(c.urgent) + Len(c.finance) + Len(c.orders) + Len(c.internal)
            + Len(c.other) = Len(emails)
       /\ \A i \in DOMAIN emails :
             CountOf(emails[i], emails)
               = CountOf(emails[i], c.urgent) + CountOf(emails[i], c.finance)
                   + CountOf(emails[i], c.orders) + CountOf(emails[i], c.internal)
                   + CountOf(emails[i], c.other)
       /\ \A i \in DOMAIN emails :
             Cardinality({k \in 1..5 : CountOf(emails[i], lists[k]) > 0}) = 1
       /\ \A i \in DOMAIN emails :
             LET e == emails[i]
             IN /\ MatchesUrgent(e) <=> CountOf(e, c.urgent) > 0
                /\ (~MatchesUrgent(e) /\ MatchesFinance(e)) <=> CountOf(e, c.finance) > 0
                /\ (~MatchesUrgent(e) /\ ~MatchesFinance(e) /\ MatchesOrders(e))
                     <=> CountOf(e, c.orders) > 0

\* C27: categorize_emails places every input email in exactly one of the
\* five categories, in input order within each, with precedence urgent,
\* finance, orders, internal, other: whenever main has called it on the
\* fetched emails it returned the five lists and they partition the input.
C27_CategoriesPartition ==
    CallsOf(em_calls, {"categorize_emails"}) # <<>>
      => /\ ~categorize_emails(em_emails).raised
         /\ PartitionsWithPrecedence(em_emails, categorize_emails(em_emails))

\* What does hold: whenever categorize_emails returned, its lists partition
\* the input with the stated precedence.
PartitionWhenReturned ==
    (CallsOf(em_calls, {"categorize_emails"}) # <<>>
       /\ ~categorize_emails(em_emails).raised)
      => PartitionsWithPrecedence(em_emails, categorize_emails(em_emails))

\* C28: in daily_report the temporary spreadsheet written by create_excel
\* no longer exists when the run ends, on every path of main after
\* create_excel returned, the failing upload and the failing send included.
C28_TempFileRemoved ==
    (/\ dr_pc \in {"end", "raised", "return_261"}
     /\ CallsOf(dr_calls, {"create_excel"}) # <<>>
     /\ dr_raised_in # "create_excel")
      => ~dr_file

\* C29: for every list of deliveries the digest and the summary sheet agree
\* on the drivers and on the number of customers of each driver: the count
\* in the driver's header line of format_whatsapp_message equals the count
\* in the driver's subtotal row of create_excel_report, rows with an empty
\* customer included.
C29_CustomerCountsAgree ==
    dd_summary # <<>>
      => LET digest == format_whatsapp_message(dd_deliveries).groups
         IN /\ Len(digest) = dd_summary.n_drivers
            /\ Len(digest) = Len(dd_summary.drivers)
            /\ \A i \in DOMAIN digest :
                  /\ digest[i].driver = dd_summary.drivers[i].driver
                  /\ digest[i].customers = dd_summary.drivers[i].driver_customers

\* What does hold: the two outputs agree on the drivers, and on the customer
\* counts of every driver none of whose rows has an empty customer.
CustomerCountsAgreeWhenNamed ==
    dd_summary # <<>>
      => LET digest == format_whatsapp_message(dd_deliveries).groups
         IN /\ Len(digest) = dd_summary.n_drivers
            /\ \A i \in DOMAIN digest :
                  /\ digest[i].driver = dd_summary.drivers[i].driver
                  /\ (\A j \in DOMAIN dd_deliveries :
                         dd_deliveries[j].driver = digest[i].driver
                           => dd_deliveries[j].customer # <<>>)
                       => digest[i].customers = dd_summary.drivers[i].driver_customers

\* Every container of the list has a PO number and one of the two valid
\* statuses, and the at-port and on-ship lists partition the list.
SplitsInTwo(containers) ==
    /\ \A i \in DOMAIN containers :
          /\ containers[i].po # ""
          /\ containers[i].status \in {ON_SHIP, AT_PORT_NO_BL}
          /\ (containers[i].status = AT_PORT_NO_BL) # (containers[i].status = ON_SHIP)
    /\ Len(at_port(containers)) + Len(on_ship(containers)) = Len(containers)

\* C30: every container returned by fetch_containers_from_priority has a
\* non-empty PO number and a status that is one of the two valid statuses,
\* so the at-port and on-ship lists of create_summary_sheet and of main
\* partition the container list: their lengths add up to the total count.
C30_ContainersPartition ==
    /\ (sc_pc = "fetch_containers_wait" /\ pq_pc = "returned")
         => SplitsInTwo(fetch_containers(pq_result))
    /\ SplitsInTwo(sc_containers)

C30_Witness ==
    /\ CallsOf(sc_calls, {"create_summary_sheet"}) # <<>>
    /\ sc_pc = "send"
    /\ Len(at_port(sc_containers)) = 1
    /\ Len(on_ship(sc_containers)) = 1
    /\ Len(sc_containers) = 2

====
